---- MODULE Spec2Model ----
(***************************************************************************)
(* Model of the URL deobfuscation protocol of VKWallPostIE                 *)
(* (yt_dlp/extractor/vk.py): the custom-alphabet decoder _decode and the   *)
(* seeded swap-sequence unmasker _unmask_url.                              *)
(*                                                                         *)
(* Further down: the audio loop of VKWallPostIE._real_extract, which calls *)
(* _unmask_url, and the encrypted request of NetEaseMusicBaseIE            *)
(* (yt_dlp/extractor/neteasemusic.py): _download_eapi_json and             *)
(* _create_eapi_cipher.                                                    *)
(*                                                                         *)
(* A Python str is modelled as a sequence of code points (naturals), a     *)
(* Python list as a sequence; Python index i is TLA+ index i + 1.          *)
(***************************************************************************)
EXTENDS Integers, Sequences, FiniteSets, TLC

VARIABLES
    mask_url0,  \* the mask_url argument as passed by the caller
    vk_id,      \* the vk_id argument
    mask_url,   \* the local mask_url: str, then list of characters, then str
    extra,      \* list of the '#'-separated parts after '?extra='
    parts,      \* the decoded control part split on chr(11)
    func,       \* first unpacked field of the control part
    base,       \* second unpacked field of the control part
    call,       \* frame of the running (or last finished) _decode call
    url_len,    \* len(mask_url) of the decoded payload
    indexes,    \* the index table
    index,      \* the running index of the recurrence / the swap target
    n,          \* loop variable of the two loops of _unmask_url
    pc,         \* position of the invocation
    exc,        \* exception that ended the invocation, or "none"
    ret,        \* returned value (once pc = "done")
    \* VKWallPostIE._real_extract
    audios,     \* the data-audio items of the page, each [url, vk_id]
    audio_i,    \* number of items the for loop has finished
    entries,    \* 'url' of the entries appended so far
    wall,       \* position of _real_extract
    \* NetEaseMusicBaseIE._download_eapi_json
    path,       \* the path argument
    query,      \* the query argument: items of a dict
    user_agent, \* self.get_param('http_headers', {}).get('User-Agent')
    now,        \* int(time.time() * 1000) as read by this call
    rand,       \* randint(0, 1000) as drawn by this call
    cookies,    \* the cookies dict
    headers,    \* the headers dict
    url,        \* the request URL
    sent,       \* the request handed to _download_json by this call
    \* NetEaseMusicBaseIE._create_eapi_cipher
    api_path,   \* the api_path argument
    merged,     \* the dict {**query, 'header': cookies} given to json.dumps
    request_text,
    message,
    msg_digest,
    plaintext,  \* the text composed at line 54, before padding
    data,       \* the padded plaintext
    encrypted,
    eapi_data,  \* the bytes returned to _download_eapi_json
    eapi,       \* position of the call
    eapi_exc,   \* exception raised in the call, or "none"
    calls,      \* number of calls of _download_eapi_json started
    last,       \* arguments and result of the previous completed cipher call
    \* ---- concurrent invocations of _unmask_url ----
    parked,     \* the locals of the invocations that are not running now
    \* ---- the two builders of the player request ----
    song_id,    \* the song asked for
    bitrate,    \* the bitrate asked for
    made,       \* what make_player_api_request_data_and_headers returned
    \* ---- extract_formats ----
    fmt_i,      \* entries of _FORMATS taken by the outer loop
    details,    \* info.get(song_format)
    song_i,     \* songs of the response taken by the inner loop
    err,        \* the recorded site code
    formats,    \* the format_id of every accepted song, in order
    first_rejected, \* history: the code of the first song whose URL was rejected
    fpc,        \* where extract_formats stands, or how it ended
    \* ---- the session of a Triller extractor ----
    _IS_LOGGED_IN,
    _AUTH_TOKEN,
    op,         \* the operation in progress or the last one
    tpc,        \* where the operation stands
    outcome,    \* how the last operation ended
    requests,   \* requests sent so far
    at_entry,   \* history: the two fields at the entry of the operation
    bearer,     \* the token of the last Authorization header
    \* ---- the ordering loop of make_lazy_extractors ----
    _ALL_CLASSES,
    __bases__,  \* c.__bases__ of every class
    classes,
    ordered_cls,
    lpc         \* where the script stands

unmaskVars == <<mask_url0, vk_id, mask_url, extra, parts, func, base, call,
                url_len, indexes, index, n, pc, exc, ret>>

wallVars == <<audios, audio_i, entries, wall>>

eapiVars == <<path, query, user_agent, now, rand, cookies, headers, url, sent,
              api_path, merged, request_text, message, msg_digest, plaintext,
              data, encrypted, eapi_data, eapi, eapi_exc, calls, last>>

parVars == <<parked>>

\* the state of the other programs of the repository
playerVars == <<song_id, bitrate, made>>

fmtVars == <<fmt_i, details, song_i, err, formats, first_rejected, fpc>>

trillerVars == <<_IS_LOGGED_IN, _AUTH_TOKEN, op, tpc, outcome, requests,
                 at_entry, bearer>>

lazyVars == <<_ALL_CLASSES, __bases__, classes, ordered_cls, lpc>>

moreVars == <<parVars, playerVars, fmtVars, trillerVars, lazyVars>>

vars == <<unmaskVars, wallVars, eapiVars, moreVars>>

\* the state outside an invocation of _unmask_url
callerVars == <<wallVars, eapiVars, moreVars>>

(***************************************************************************)
(* Bounds of the model                                                     *)
(***************************************************************************)
MaxEncLen == 4      \* longest enumerated payload, in symbols
MaxVkId == 2        \* vk_id ranges over -MaxVkId .. MaxVkId

(***************************************************************************)
(* Strings                                                                 *)
(***************************************************************************)
Range(a, b) == [i \in 1..(b - a + 1) |-> a + i - 1]

\* mutant: the 'O' written at both places, 'N' 'O' 'P' and 'O' '1' '2'
BASE64_CHARS_DoubleO ==
    Range(97, 122) \o Range(65, 90) \o <<79>> \o Range(49, 57) \o <<43, 47, 61>>

\* 'abcdefghijklmnopqrstuvwxyzABCDEFGHIJKLMN0PQRSTUVWXYZO123456789+/='
_BASE64_CHARS ==
    Range(97, 122) \o Range(65, 78) \o <<48>> \o Range(80, 90) \o <<79>>
        \o Range(49, 57) \o <<43, 47, 61>>

\* 'audio_api_unavailable'
Marker ==
    <<97, 117, 100, 105, 111, 95, 97, 112, 105, 95, 117, 110, 97, 118, 97,
      105, 108, 97, 98, 108, 101>>

\* '?extra='
ExtraDelim == <<63, 101, 120, 116, 114, 97, 61>>

\* '#'
Hash == <<35>>

\* chr(11)
ControlSep == <<11>>

None == -1

\* s[i:] of Python, i 0-based
From(s, i) == SubSeq(s, i + 1, Len(s))

\* s.startswith(sep, i)
MatchAt(s, sep, i) ==
    /\ i + Len(sep) <= Len(s)
    /\ SubSeq(s, i + 1, i + Len(sep)) = sep

\* str.find(sep): 0-based position of the first occurrence, -1 when absent
Find(s, sep) ==
    IF \E i \in 0..Len(s) : MatchAt(s, sep, i)
    THEN CHOOSE i \in 0..Len(s) :
            /\ MatchAt(s, sep, i)
            /\ \A j \in 0..(i - 1) : ~MatchAt(s, sep, j)
    ELSE -1

\* sep in s
Contains(s, sep) == \E i \in 0..Len(s) : MatchAt(s, sep, i)

\* s.split(sep), sep non-empty
RECURSIVE Split(_, _)
Split(s, sep) ==
    LET i == Find(s, sep) IN
    IF i < 0 THEN <<s>>
    ELSE <<SubSeq(s, 1, i)>> \o Split(From(s, i + Len(sep)), sep)

\* str.index(c) on the alphabet: 0-based position, -1 stands for ValueError
IndexOf(s, c) ==
    IF \E i \in 1..Len(s) : s[i] = c
    THEN (CHOOSE i \in 1..Len(s) : s[i] = c /\ \A j \in 1..(i - 1) : s[j] # c) - 1
    ELSE -1

(***************************************************************************)
(* Integers of Python: unbounded, two's complement for the bit operators   *)
(***************************************************************************)
RECURSIVE XorNat(_, _)
XorNat(a, b) ==
    IF a = 0 THEN b
    ELSE IF b = 0 THEN a
    ELSE (((a % 2) + (b % 2)) % 2) + 2 * XorNat(a \div 2, b \div 2)

\* a ^ b
Xor(a, b) ==
    IF a >= 0 /\ b >= 0 THEN XorNat(a, b)
    ELSE IF a < 0 /\ b < 0 THEN XorNat(-a - 1, -b - 1)
    ELSE IF a < 0 THEN -XorNat(-a - 1, b) - 1
    ELSE -XorNat(a, -b - 1) - 1

RECURSIVE AndNat(_, _)
AndNat(a, b) ==
    IF a = 0 \/ b = 0 THEN 0
    ELSE ((a % 2) * (b % 2)) + 2 * AndNat(a \div 2, b \div 2)

\* a & b for b >= 0
And(a, b) == IF a >= 0 THEN AndNat(a, b) ELSE b - AndNat(-a - 1, b)

RECURSIVE Pow2(_)
Pow2(k) == IF k = 0 THEN 1 ELSE 2 * Pow2(k - 1)

\* a >> k for a >= 0
Shr(a, k) == a \div Pow2(k)

\* str.strip() of int(): the whitespace code points below 256
Whitespace == {9, 10, 11, 12, 13, 28, 29, 30, 31, 32, 133, 160}

RECURSIVE LStrip(_)
LStrip(s) ==
    IF s # <<>> /\ s[1] \in Whitespace THEN LStrip(Tail(s)) ELSE s

RECURSIVE RStrip(_)
RStrip(s) ==
    IF s # <<>> /\ s[Len(s)] \in Whitespace
    THEN RStrip(SubSeq(s, 1, Len(s) - 1)) ELSE s

IsDigit(c) == c \in 48..57

RECURSIVE DigitsValue(_, _)
DigitsValue(s, acc) ==
    IF s = <<>> THEN acc
    ELSE IF s[1] = 95 THEN DigitsValue(Tail(s), acc)
    ELSE DigitsValue(Tail(s), 10 * acc + (s[1] - 48))

\* the digit part of a decimal literal: digits, single '_' between digits
WellFormedDigits(s) ==
    /\ s # <<>>
    /\ \A i \in 1..Len(s) : IsDigit(s[i]) \/ s[i] = 95
    /\ IsDigit(s[1])
    /\ IsDigit(s[Len(s)])
    /\ \A i \in 1..(Len(s) - 1) : ~(s[i] = 95 /\ s[i + 1] = 95)

\* int(s): [ok |-> TRUE, val |-> v], or [ok |-> FALSE, ...] for ValueError
ParseInt(s) ==
    LET t == RStrip(LStrip(s))
        signed == t # <<>> /\ t[1] \in {43, 45}
        body == IF signed THEN Tail(t) ELSE t
    IN  IF WellFormedDigits(body)
        THEN [ok |-> TRUE,
              val |-> IF signed /\ t[1] = 45
                      THEN -DigitsValue(body, 0) ELSE DigitsValue(body, 0)]
        ELSE [ok |-> FALSE, val |-> 0]

(***************************************************************************)
(* _decode: one iteration of the loop body                                 *)
(***************************************************************************)
NoCall == [enc |-> <<>>, dec |-> <<>>, e |-> 0, n |-> 0, r |-> None]

NewCall(enc) == [enc |-> enc, dec |-> <<>>, e |-> 0, n |-> 0, r |-> None]

\* mutant: the shift computed from 2 * n instead of -2 * n
ShiftOfPositive(cnt) == And(2 * cnt, 6)

\* -2 * n & 6
ShiftOf(cnt) == And(-2 * cnt, 6)


\* mutant: the mask applied before the shift, (255 & e) >> (-2 * n & 6)
EmittedMaskFirst(e, cnt) == Shr(And(255, e), ShiftOf(cnt))

\* chr(255 & e >> (-2 * n & 6))
Emitted(e, cnt) == And(255, Shr(e, ShiftOf(cnt)))

\* mutant: the emission test made on n after its increment
DecodeSymbolTestAfterIncrement(f, r) ==
    LET cond == f.n % 4
        e2 == IF cond # 0 THEN 64 * f.e + r ELSE r
        n2 == f.n + 1
    IN  [enc |-> f.enc,
         dec |-> IF n2 % 4 # 0 THEN Append(f.dec, Emitted(e2, n2)) ELSE f.dec,
         e |-> e2,
         n |-> n2,
         r |-> r]

\* the loop body for a symbol whose table position is r
DecodeSymbol(f, r) ==
    LET cond == f.n % 4
        e2 == IF cond # 0 THEN 64 * f.e + r ELSE r
        n2 == f.n + 1
    IN  [enc |-> f.enc,
         dec |-> IF cond # 0 THEN Append(f.dec, Emitted(e2, n2)) ELSE f.dec,
         e |-> e2,
         n |-> n2,
         r |-> r]

(***************************************************************************)
(* _unmask_url: the pieces of its two loops                                *)
(***************************************************************************)
\* mutant: the test made on the delimiter instead of the marker
HasExtraDelim(s) == Contains(s, ExtraDelim)

\* 'audio_api_unavailable' in mask_url
HasMarker(s) == Contains(s, Marker)

\* mutant: surplus fields are dropped instead of refused
UnpackOkAtLeastTwo(p) == Len(p) >= 2

\* func, base = ....split(chr(11)) unpacks exactly two values
UnpackOk(p) == Len(p) = 2

\* mutant: the modulus is forgotten
IndexStepNoModulus(len, k, idx) == Xor(len * (k + 1), idx + k)


\* mutant: the XOR evaluated before the multiplication and the addition
IndexStepXorFirst(len, k, idx) == (len * Xor(k + 1, idx) + k) % len

\* mutant: the remainder takes the sign of the dividend
IndexStepTruncated(len, k, idx) ==
    LET x == Xor(len * (k + 1), idx + k)
    IN  IF x >= 0 THEN x % len ELSE -((-x) % len)

\* index = (url_len * (n + 1) ^ index + n) % url_len
IndexStep(len, k, idx) == Xor(len * (k + 1), idx + k) % len

\* mutant: the table is read forwards, indexes[n]
SwapTargetForward(tbl, len, k) == tbl[k + 1]


\* mutant: the table is read one entry higher, indexes[url_len - n]
SwapTargetOneHigher(tbl, len, k) == tbl[(len - k) + 1]

\* index = indexes[url_len - 1 - n]
SwapTarget(tbl, len, k) == tbl[(len - 1 - k) + 1]

\* mutant: the saved character is never written back
SwapAtNoWriteBack(buf, k, idx) == [buf EXCEPT ![k + 1] = buf[idx + 1]]

\* mutant: the source position is taken one too low, mask_url[n - 1]
SwapAtSourceBelow(buf, k, idx) ==
    LET c == buf[k]
        b1 == [buf EXCEPT ![k] = buf[idx + 1]]
    IN  [b1 EXCEPT ![idx + 1] = c]

\* c = mask_url[n]; mask_url[n] = mask_url[index]; mask_url[index] = c
SwapAt(buf, k, idx) ==
    LET c == buf[k + 1]
        b1 == [buf EXCEPT ![k + 1] = buf[idx + 1]]
    IN  [b1 EXCEPT ![idx + 1] = c]

(***************************************************************************)
(* Inputs                                                                  *)
(***************************************************************************)
\* the symbols at the given positions of the alphabet
FromIdx(s) == [i \in 1..Len(s) |-> _BASE64_CHARS[s[i] + 1]]

SeqsUpTo(S, k) == UNION {[1..m -> S] : m \in 0..k}

\* 'a' (position 0), 'p' (position 15), '=' (position 64)
PaySyms == {97, 112, 61}

\* every symbol sequence up to the bound, to exercise _decode
EnumPayloads == SeqsUpTo(PaySyms, MaxEncLen)

\* payloads of chosen shapes, to exercise the swap loop and the failures
Payloads ==
    {<<>>,
     FromIdx(<<24, 22>>),                       \* decodes to 'a'
     FromIdx(<<24, 22, 8>>),                    \* decodes to 'ab'
     FromIdx(<<24, 22, 9, 35>>),                \* decodes to 'abc'
     FromIdx(<<24, 22, 9, 35, 25, 0>>),         \* decodes to 'abcd'
     FromIdx(<<24, 22, 9, 34, 24, 16>>),        \* decodes to 'abba'
     FromIdx(<<24, 22, 9, 35, 25, 6, 20>>),     \* decodes to 'abcde'
     <<33>>,                                    \* '!'
     <<97, 112, 33, 112>>}                      \* 'ap!p'

Controls ==
    {FromIdx(<<25, 32, 44, 53>>),           \* 'f', 11, '5'
     FromIdx(<<25, 32, 44, 48>>),           \* 'f', 11, '0'
     FromIdx(<<25, 32, 44, 45, 12, 32>>),   \* 'f', 11, '-2'
     FromIdx(<<2, 50, 0, 51>>),             \* 11, ' 3'
     FromIdx(<<25, 32, 45, 56>>),           \* 'f', 11, 'x'
     FromIdx(<<25, 32, 44>>),               \* 'f', 11
     FromIdx(<<25, 35, 20, 32>>),           \* 'f5 '
     FromIdx(<<2, 51, 20, 11>>),            \* 11, '5', 11
     FromIdx(<<25, 48, 44, 53>>),           \* 'g', 11, '5'
     <<122, 33>>}                           \* 'z!'

\* 'h' and 'h' + marker
Heads == {<<104>>, <<104>> \o Marker}

FullInputs ==
    {<<104>> \o Marker \o ExtraDelim \o p \o Hash \o c :
        p \in Payloads, c \in Controls}

DecodeInputs ==
    {<<104>> \o Marker \o ExtraDelim \o p \o Hash \o FromIdx(<<25, 32, 44, 53>>) :
        p \in EnumPayloads}

VariantInputs ==
    {h \o m \o FromIdx(<<24, 22, 9, 35, 25, 0>>) \o s
        \o FromIdx(<<25, 32, 44, 53>>) \o t :
        h \in Heads, m \in {<<>>, ExtraDelim}, s \in {<<>>, Hash},
        t \in {<<>>, Hash \o <<104>>, ExtraDelim \o <<104>>}}

Inputs == FullInputs \cup DecodeInputs \cup VariantInputs

(***************************************************************************)
(* The invocation _unmask_url(mask_url, vk_id)                             *)
(***************************************************************************)
Init ==
    /\ mask_url0 \in Inputs
    /\ vk_id \in (-MaxVkId)..MaxVkId
    /\ mask_url = mask_url0
    /\ extra = <<>>
    /\ parts = <<>>
    /\ func = <<>>
    /\ base = <<>>
    /\ call = NoCall
    /\ url_len = 0
    /\ indexes = <<>>
    /\ index = 0
    /\ n = 0
    /\ pc = "check"
    /\ exc = "none"
    /\ ret = <<>>

Running(at) == pc = at /\ exc = "none"

Raise(e) ==
    /\ exc' = e
    /\ UNCHANGED <<mask_url0, vk_id, mask_url, extra, parts, func, base, call,
                   url_len, indexes, index, n, pc, ret>>

\* if 'audio_api_unavailable' in mask_url: ... return mask_url
CheckMarker ==
    /\ Running("check")
    /\ IF HasMarker(mask_url)
       THEN /\ pc' = "split"
            /\ ret' = ret
       ELSE /\ pc' = "done"
            /\ ret' = mask_url
    /\ UNCHANGED <<mask_url0, vk_id, mask_url, extra, parts, func, base, call,
                   url_len, indexes, index, n, exc>>

\* extra = mask_url.split('?extra=')[1].split('#')
SplitExtra ==
    /\ Running("split")
    /\ LET halves == Split(mask_url, ExtraDelim) IN
       IF Len(halves) < 2
       THEN Raise("IndexError")
       ELSE /\ extra' = Split(halves[2], Hash)
            /\ pc' = "call_ctl"
            /\ UNCHANGED <<mask_url0, vk_id, mask_url, parts, func, base, call,
                           url_len, indexes, index, n, exc, ret>>

\* self._decode(extra[1]): the call
CallDecodeControl ==
    /\ Running("call_ctl")
    /\ IF Len(extra) < 2
       THEN Raise("IndexError")
       ELSE /\ call' = NewCall(extra[2])
            /\ pc' = "dec_ctl"
            /\ UNCHANGED <<mask_url0, vk_id, mask_url, extra, parts, func, base,
                           url_len, indexes, index, n, exc, ret>>

\* for c in enc: r = self._BASE64_CHARS.index(c); ...
DecodeStep ==
    /\ pc \in {"dec_ctl", "dec_payload"}
    /\ exc = "none"
    /\ call.n < Len(call.enc)
    /\ LET r == IndexOf(_BASE64_CHARS, call.enc[call.n + 1]) IN
       IF r < 0
       THEN Raise("ValueError")
       ELSE /\ call' = DecodeSymbol(call, r)
            /\ UNCHANGED <<mask_url0, vk_id, mask_url, extra, parts, func, base,
                           url_len, indexes, index, n, pc, exc, ret>>

\* return dec;  func, base = (...).split(chr(11))
UnpackControl ==
    /\ Running("dec_ctl")
    /\ call.n = Len(call.enc)
    /\ LET p == Split(call.dec, ControlSep) IN
       /\ parts' = p
       /\ IF UnpackOk(p)
          THEN /\ func' = p[1]
               /\ base' = p[2]
               /\ pc' = "call_payload"
               /\ exc' = exc
          ELSE /\ exc' = "ValueError"
               /\ UNCHANGED <<func, base, pc>>
    /\ UNCHANGED <<mask_url0, vk_id, mask_url, extra, call, url_len, indexes,
                   index, n, ret>>

\* self._decode(extra[0]): the call
CallDecodePayload ==
    /\ Running("call_payload")
    /\ call' = NewCall(extra[1])
    /\ pc' = "dec_payload"
    /\ UNCHANGED <<mask_url0, vk_id, mask_url, extra, parts, func, base,
                   url_len, indexes, index, n, exc, ret>>

\* return dec;  mask_url = list(...); url_len = len(mask_url);
\* indexes = [None] * url_len
ListPayload ==
    /\ Running("dec_payload")
    /\ call.n = Len(call.enc)
    /\ mask_url' = call.dec
    /\ url_len' = Len(call.dec)
    /\ indexes' = [i \in 1..Len(call.dec) |-> None]
    /\ pc' = "seed"
    /\ UNCHANGED <<mask_url0, vk_id, extra, parts, func, base, call, index, n,
                   exc, ret>>

\* mutant: the identity is left out of the seed, index = int(base)
ComputeSeedWithoutIdentity ==
    /\ Running("seed")
    /\ LET v == ParseInt(base) IN
       IF ~v.ok
       THEN Raise("ValueError")
       ELSE /\ index' = v.val
            /\ n' = url_len - 1
            /\ pc' = "build"
            /\ UNCHANGED <<mask_url0, vk_id, mask_url, extra, parts, func, base,
                           call, url_len, indexes, exc, ret>>

\* index = int(base) ^ vk_id;  for n in range(url_len - 1, -1, -1):
ComputeSeed ==
    /\ Running("seed")
    /\ LET v == ParseInt(base) IN
       IF ~v.ok
       THEN Raise("ValueError")
       ELSE /\ index' = Xor(v.val, vk_id)
            /\ n' = url_len - 1
            /\ pc' = "build"
            /\ UNCHANGED <<mask_url0, vk_id, mask_url, extra, parts, func, base,
                           call, url_len, indexes, exc, ret>>

\* mutant: the loop body runs once before the range is tested, so an empty
\* buffer reaches the modulus by url_len = 0
BuildIndexBodyFirst ==
    /\ Running("build")
    /\ IF url_len = 0
       THEN Raise("ZeroDivisionError")
       ELSE /\ n >= 0
            /\ index' = IndexStep(url_len, n, index)
            /\ indexes' = [indexes EXCEPT ![n + 1] = index']
            /\ n' = n - 1
            /\ UNCHANGED <<mask_url0, vk_id, mask_url, extra, parts, func, base,
                           call, url_len, pc, exc, ret>>

\* index = (url_len * (n + 1) ^ index + n) % url_len;  indexes[n] = index
BuildIndex ==
    /\ Running("build")
    /\ n >= 0
    /\ index' = IndexStep(url_len, n, index)
    /\ indexes' = [indexes EXCEPT ![n + 1] = index']
    /\ n' = n - 1
    /\ UNCHANGED <<mask_url0, vk_id, mask_url, extra, parts, func, base, call,
                   url_len, pc, exc, ret>>

\* the first loop is exhausted;  for n in range(1, url_len):
StartSwaps ==
    /\ Running("build")
    /\ n < 0
    /\ n' = 1
    /\ pc' = "swap"
    /\ UNCHANGED <<mask_url0, vk_id, mask_url, extra, parts, func, base, call,
                   url_len, indexes, index, exc, ret>>

\* c = mask_url[n]; index = indexes[url_len - 1 - n]; the swap
SwapStep ==
    /\ Running("swap")
    /\ n < url_len
    /\ index' = SwapTarget(indexes, url_len, n)
    /\ mask_url' = SwapAt(mask_url, n, index')
    /\ n' = n + 1
    /\ UNCHANGED <<mask_url0, vk_id, extra, parts, func, base, call, url_len,
                   indexes, pc, exc, ret>>

\* mask_url = ''.join(mask_url);  return mask_url
JoinReturn ==
    /\ Running("swap")
    /\ n >= url_len
    /\ ret' = mask_url
    /\ pc' = "done"
    /\ UNCHANGED <<mask_url0, vk_id, mask_url, extra, parts, func, base, call,
                   url_len, indexes, index, n, exc>>

Next ==
    \/ CheckMarker /\ UNCHANGED callerVars
    \/ SplitExtra /\ UNCHANGED callerVars
    \/ CallDecodeControl /\ UNCHANGED callerVars
    \/ DecodeStep /\ UNCHANGED callerVars
    \/ UnpackControl /\ UNCHANGED callerVars
    \/ CallDecodePayload /\ UNCHANGED callerVars
    \/ ListPayload /\ UNCHANGED callerVars
    \/ ComputeSeed /\ UNCHANGED callerVars
    \/ BuildIndex /\ UNCHANGED callerVars
    \/ StartSwaps /\ UNCHANGED callerVars
    \/ SwapStep /\ UNCHANGED callerVars
    \/ JoinReturn /\ UNCHANGED callerVars

\* a Python value: str, int, None, dict (ordered list of [k, v] items with
\* str keys) or an object json cannot serialize
StrV(s) == [t |-> "str", s |-> s, n |-> 0, d |-> <<>>]
IntV(k) == [t |-> "int", s |-> <<>>, n |-> k, d |-> <<>>]
NoneV == [t |-> "none", s |-> <<>>, n |-> 0, d |-> <<>>]
DictV(items) == [t |-> "dict", s |-> <<>>, n |-> 0, d |-> items]
ObjV == [t |-> "obj", s |-> <<>>, n |-> 0, d |-> <<>>]

\* no wall post is being extracted
WallIdle ==
    /\ audios = <<>>
    /\ audio_i = 0
    /\ entries = <<>>
    /\ wall = "idle"

\* no request has been handed to _download_json
NoRequest == [url |-> <<>>, data |-> <<>>, headers |-> <<>>]

\* no cipher call has completed
NoLast == [api_path |-> <<>>, query |-> <<>>, cookies |-> <<>>, body |-> <<>>]

\* no eapi call has been made
EapiIdle ==
    /\ path = <<>>
    /\ query = <<>>
    /\ user_agent = <<>>
    /\ now = 0
    /\ rand = 0
    /\ cookies = <<>>
    /\ headers = <<>>
    /\ url = <<>>
    /\ sent = NoRequest
    /\ api_path = <<>>
    /\ merged = <<>>
    /\ request_text = <<>>
    /\ message = <<>>
    /\ msg_digest = <<>>
    /\ plaintext = <<>>
    /\ data = <<>>
    /\ encrypted = <<>>
    /\ eapi_data = <<>>
    /\ eapi = "idle"
    /\ eapi_exc = "none"
    /\ calls = 0
    /\ last = NoLast

\* no other invocation of _unmask_url is in progress
ParIdle == parked = <<>>

\* make_player_api_request_data_and_headers has not been called
NoMade == [data |-> <<>>, headers |-> <<>>, now |-> 0, rand |-> 0]

PlayerIdle == song_id = <<>> /\ bitrate = 0 /\ made = NoMade

\* extract_formats has not been called
FormatsIdle ==
    /\ fmt_i = 0
    /\ details = <<>>
    /\ song_i = 0
    /\ err = <<>>
    /\ formats = <<>>
    /\ first_rejected = <<>>
    /\ fpc = "idle"

\* _IS_LOGGED_IN = False; _AUTH_TOKEN = None; no operation yet
TrillerIdle ==
    /\ _IS_LOGGED_IN = FALSE
    /\ _AUTH_TOKEN = NoneV
    /\ op = "none"
    /\ tpc = "idle"
    /\ outcome = "none"
    /\ requests = 0
    /\ at_entry = <<FALSE, NoneV>>
    /\ bearer = NoneV

\* make_lazy_extractors has not been run
LazyIdle ==
    /\ _ALL_CLASSES = <<>>
    /\ __bases__ = <<>>
    /\ classes = <<>>
    /\ ordered_cls = <<>>
    /\ lpc = "idle"

\* the other programs of the repository have not started
MoreIdle == ParIdle /\ PlayerIdle /\ FormatsIdle /\ TrillerIdle /\ LazyIdle

\* one invocation of _unmask_url, no caller modelled
InitUnmask == Init /\ WallIdle /\ EapiIdle /\ MoreIdle

Spec == InitUnmask /\ [][Next]_vars

(***************************************************************************)
(* VKWallPostIE._real_extract: the loop over the audio items of a post     *)
(***************************************************************************)
MaxAudios == 2      \* most data-audio items on a page

\* 'h' + marker + '?extra=' + payload + '#' + control
Masked(p, c) == <<104>> \o Marker \o ExtraDelim \o p \o Hash \o c

\* the items a page is made of: no url, a plain url, a masked url that
\* unmasks, a marked url without '?extra=', a payload outside the alphabet
Audios ==
    {[url |-> <<>>, vk_id |-> 0],
     [url |-> <<104>>, vk_id |-> 1],
     [url |-> Masked(FromIdx(<<24, 22, 9, 35, 25, 0>>), FromIdx(<<25, 32, 44, 53>>)),
      vk_id |-> 1],
     [url |-> <<104>> \o Marker, vk_id |-> 0],
     [url |-> Masked(<<33>>, FromIdx(<<25, 32, 44, 53>>)), vk_id |-> 2]}

Pages == SeqsUpTo(Audios, MaxAudios)

\* no _unmask_url frame
UnmaskIdle ==
    /\ mask_url0 = <<>>
    /\ vk_id = 0
    /\ mask_url = <<>>
    /\ extra = <<>>
    /\ parts = <<>>
    /\ func = <<>>
    /\ base = <<>>
    /\ call = NoCall
    /\ url_len = 0
    /\ indexes = <<>>
    /\ index = 0
    /\ n = 0
    /\ pc = "idle"
    /\ exc = "none"
    /\ ret = <<>>

\* _real_extract before its first audio item
InitWall ==
    /\ audios \in Pages
    /\ audio_i = 0
    /\ entries = <<>>
    /\ wall = "loop"
    /\ UnmaskIdle
    /\ EapiIdle
    /\ MoreIdle

\* for audio in ...: if not a.url: continue; ... self._unmask_url(a.url, a.ads['vk_id'])
NextAudio ==
    /\ wall = "loop"
    /\ audio_i < Len(audios)
    /\ LET a == audios[audio_i + 1] IN
       IF a.url = <<>>
       THEN /\ audio_i' = audio_i + 1
            /\ UNCHANGED <<audios, entries, wall, unmaskVars>>
       ELSE /\ wall' = "call"
            /\ mask_url0' = a.url
            /\ vk_id' = a.vk_id
            /\ mask_url' = a.url
            /\ extra' = <<>>
            /\ parts' = <<>>
            /\ func' = <<>>
            /\ base' = <<>>
            /\ call' = NoCall
            /\ url_len' = 0
            /\ indexes' = <<>>
            /\ index' = 0
            /\ n' = 0
            /\ pc' = "check"
            /\ exc' = "none"
            /\ ret' = <<>>
            /\ UNCHANGED <<audios, audio_i, entries>>

\* entries.append({..., 'url': <returned value>, ...})
AppendEntry ==
    /\ wall = "call"
    /\ pc = "done"
    /\ exc = "none"
    /\ entries' = Append(entries, ret)
    /\ audio_i' = audio_i + 1
    /\ wall' = "loop"
    /\ pc' = "idle"
    /\ UNCHANGED <<audios, mask_url0, vk_id, mask_url, extra, parts, func, base,
                   call, url_len, indexes, index, n, exc, ret>>

\* no try statement encloses the call: the exception leaves _real_extract
PropagateError ==
    /\ wall = "call"
    /\ exc # "none"
    /\ wall' = "raised"
    /\ UNCHANGED <<audios, audio_i, entries, unmaskVars>>

\* the for loop is exhausted: return self.playlist_result(...)
PlaylistResult ==
    /\ wall = "loop"
    /\ audio_i = Len(audios)
    /\ wall' = "returned"
    /\ UNCHANGED <<audios, audio_i, entries, unmaskVars>>

NextWall ==
    \/ Next
    \/ NextAudio /\ UNCHANGED <<eapiVars, moreVars>>
    \/ AppendEntry /\ UNCHANGED <<eapiVars, moreVars>>
    \/ PropagateError /\ UNCHANGED <<eapiVars, moreVars>>
    \/ PlaylistResult /\ UNCHANGED <<eapiVars, moreVars>>

SpecWall == InitWall /\ [][NextWall]_vars

(***************************************************************************)
(* _decode and the two loops of _unmask_url as functions of their inputs   *)
(***************************************************************************)
\* _decode(enc): the loop run to its end
RECURSIVE DecodeRun(_)
DecodeRun(f) ==
    IF f.n >= Len(f.enc) THEN f.dec
    ELSE DecodeRun(DecodeSymbol(f, IndexOf(_BASE64_CHARS, f.enc[f.n + 1])))

DecodeAll(enc) == DecodeRun(NewCall(enc))

\* the first loop: the table filled from k down to 0
RECURSIVE TableRun(_, _, _, _)
TableRun(tbl, len, k, idx) ==
    IF k < 0 THEN tbl
    ELSE LET i2 == IndexStep(len, k, idx)
         IN  TableRun([tbl EXCEPT ![k + 1] = i2], len, k - 1, i2)

\* the second loop: the swaps from k up to len(buf) - 1
RECURSIVE UnmaskRun(_, _, _)
UnmaskRun(buf, tbl, k) ==
    IF k >= Len(buf) THEN buf
    ELSE UnmaskRun(SwapAt(buf, k, SwapTarget(tbl, Len(buf), k)), tbl, k + 1)

UnmaskAll(buf, seed) ==
    UnmaskRun(buf,
              TableRun([i \in 1..Len(buf) |-> None], Len(buf), Len(buf) - 1, seed),
              1)

(***************************************************************************)
(* Vocabulary of the properties                                            *)
(***************************************************************************)
\* the invocation returned through the marker branch
Unmasked == pc = "done" /\ Contains(mask_url0, Marker)

\* the first loop of _unmask_url has filled the index table
TableBuilt == exc = "none" /\ (pc = "swap" \/ Unmasked)

\* a _decode call has consumed its whole input and is about to return
DecodeFinished ==
    /\ pc \in {"dec_ctl", "dec_payload"}
    /\ exc = "none"
    /\ call.n = Len(call.enc)

\* the buffer the swap loop started from: the decoded payload
Decoded == call.dec

Count(s, c) == Cardinality({i \in 1..Len(s) : s[i] = c})

SameCharacters(s, t) ==
    /\ Len(s) = Len(t)
    /\ \A i \in 1..Len(s) : Count(s, s[i]) = Count(t, s[i])

Rearrangements(s) ==
    {x \in [1..Len(s) -> {s[i] : i \in 1..Len(s)}] : SameCharacters(x, s)}

Exchange(x, i, j) == [k \in 1..Len(x) |-> IF k = i THEN x[j] ELSE IF k = j THEN x[i] ELSE x[k]]

\* the origin's scrambling: the swaps (k, T[L-1-k]) for k from L-1 down to 1
RECURSIVE ScrambleFrom(_, _, _)
ScrambleFrom(x, tbl, k) ==
    IF k < 1 THEN x
    ELSE ScrambleFrom(Exchange(x, k + 1, tbl[Len(x) - k] + 1), tbl, k - 1)

Scramble(x, tbl) == ScrambleFrom(x, tbl, Len(x) - 1)

\* position in the alphabet of the i-th symbol (1-based) of the decoded input
Val(i) == IndexOf(_BASE64_CHARS, call.enc[i])

(***************************************************************************)
(* C1. The index table is a permutation of 0..L-1.                         *)
(***************************************************************************)
\* C1 as stated: once the table of a buffer of length L > 0 is built, every
\* value of 0..L-1 occurs in it and no value occurs twice.
C1_TableIsPermutation ==
    (TableBuilt /\ url_len > 0) =>
        /\ \A v \in 0..(url_len - 1) : \E i \in 1..url_len : indexes[i] = v
        /\ \A i, j \in 1..url_len : indexes[i] = indexes[j] => i = j

\* C1 amended: once the table is built it has exactly L entries and each
\* entry is a position of the buffer, a value of 0..L-1 (values may repeat).
C1_TableEntriesInRange ==
    TableBuilt =>
        /\ Len(indexes) = url_len
        /\ \A i \in 1..url_len : indexes[i] \in 0..(url_len - 1)

C1_Witness ==
    /\ TableBuilt
    /\ url_len >= 2
    /\ \E i, j \in 1..url_len : i # j /\ indexes[i] = indexes[j]

(***************************************************************************)
(* C2. Round trip of the unmasker.                                         *)
(***************************************************************************)
\* C2: whenever the decoded payload is the scrambling of a sequence x under
\* the table of the seed, the unmasked result is exactly x.
C2_RoundTrip ==
    Unmasked =>
        \A x \in Rearrangements(Decoded) :
            Scramble(x, indexes) = Decoded => ret = x

C2_Witness ==
    /\ Unmasked
    /\ url_len >= 4
    /\ ret # Decoded
    /\ Scramble(ret, indexes) = Decoded

(***************************************************************************)
(* C3. The swap loop rearranges, it loses and duplicates nothing.          *)
(***************************************************************************)
\* C3: during and after the swap loop the buffer has the length of the
\* decoded payload and the same characters with the same multiplicities.
C3_SameCharacters ==
    /\ Running("swap") => SameCharacters(mask_url, Decoded)
    /\ Unmasked => SameCharacters(ret, Decoded)

C3_Witness ==
    /\ Unmasked
    /\ url_len >= 3
    /\ ret # Decoded
    /\ \E i, j \in 1..url_len : i # j /\ Decoded[i] = Decoded[j]

(***************************************************************************)
(* C4. Position 0 of the buffer.                                           *)
(***************************************************************************)
\* C4 as stated: the character at index 0 of the output is the character at
\* index 0 of the decoded payload.
C4_PositionZeroNeverMoved ==
    (Unmasked /\ url_len > 0) => ret[1] = Decoded[1]

\* no swap of the loop has position 0 as its target
NoSwapTargetsZero == \A k \in 1..(url_len - 1) : indexes[url_len - k] # 0

\* C4 amended: position 0 is never the source index n of a swap, so when
\* no swap target T[L-1-n] (n in 1..L-1) is 0, the character at index 0 of
\* the output is the character at index 0 of the decoded payload.
C4_PositionZeroKeptUnlessTargeted ==
    (Unmasked /\ url_len > 0 /\ NoSwapTargetsZero) => ret[1] = Decoded[1]

C4_Witness ==
    /\ Unmasked
    /\ url_len >= 3
    /\ NoSwapTargetsZero
    /\ ret # Decoded
    /\ ret[1] = Decoded[1]

AlphabetDistinct ==
    \A i, j \in 1..Len(_BASE64_CHARS) :
        _BASE64_CHARS[i] = _BASE64_CHARS[j] => i = j

C8_DecodeNeverRaises ==
    ~(pc \in {"dec_ctl", "dec_payload"} /\ exc # "none")

(***************************************************************************)
(* C9. An input without the marker is returned unchanged.                  *)
(***************************************************************************)
\* C9: for an input that does not contain 'audio_api_unavailable' the
\* invocation only checks and returns: it raises nothing, splits and decodes
\* nothing, and the value returned is the input.
C9_UnmarkedReturnedUnchanged ==
    ~Contains(mask_url0, Marker) =>
        /\ pc \in {"check", "done"}
        /\ exc = "none"
        /\ mask_url = mask_url0
        /\ extra = <<>>
        /\ parts = <<>>
        /\ call = NoCall
        /\ pc = "done" => ret = mask_url0

C9_Witness ==
    /\ ~Contains(mask_url0, Marker)
    /\ Contains(mask_url0, ExtraDelim)
    /\ Contains(mask_url0, Hash)
    /\ pc = "done"
    /\ ret = mask_url0

(***************************************************************************)
(* C10. Malformed marked input ends in an error.                           *)
(***************************************************************************)
\* text after the first '?extra=' of the input
AfterExtra == From(mask_url0, Find(mask_url0, ExtraDelim) + Len(ExtraDelim))

\* the invocation stands at a step that one of the four defects makes fail
DefectAhead ==
    \/ pc = "split" /\ ~Contains(mask_url0, ExtraDelim)
    \/ pc = "call_ctl" /\ ~Contains(AfterExtra, Hash)
    \/ /\ pc = "dec_ctl"
       /\ call.n = Len(call.enc)
       /\ Len(Split(call.dec, ControlSep)) # 2
    \/ pc = "seed" /\ ~ParseInt(base).ok

\* a URL was returned through the marker branch only from a well-formed input
ReturnedOnlyWellFormed ==
    Unmasked =>
        /\ Contains(mask_url0, ExtraDelim)
        /\ Contains(AfterExtra, Hash)
        /\ Len(parts) = 2
        /\ ParseInt(parts[2]).ok

\* C10: on a marked input a URL is returned only if '?extra=' is present, a
\* '#' follows it, the decoded control part splits on chr(11) into exactly
\* two fields and the base field is an integer; and at the step where one of
\* these fails, the only step the invocation can take raises an exception.
C10_MalformedEndsInError ==
    /\ []ReturnedOnlyWellFormed
    /\ [][(exc = "none" /\ DefectAhead) => exc' # "none"]_vars

C10_Witness ==
    /\ Contains(mask_url0, Marker)
    /\ pc = "seed"
    /\ exc = "ValueError"
    /\ Len(parts) = 2
    /\ ~ParseInt(parts[2]).ok

(***************************************************************************)
(* C12. An empty decoded payload.                                          *)
(***************************************************************************)
\* the payload has been decoded to an empty buffer
EmptyBuffer == Len(Decoded) = 0 /\ (pc \in {"build", "swap"} \/ Unmasked)

\* C12 as stated: with an empty decoded payload (L = 0) unmasking ends in an
\* error and returns no URL.
C12_EmptyBufferFails ==
    ~(Unmasked /\ Len(Decoded) = 0)

\* C12 amended: with an empty decoded payload (L = 0) both loops run zero
\* times, no modulus is evaluated, no exception is raised and the returned
\* URL is the empty string.
C12_EmptyBufferReturnsEmpty ==
    EmptyBuffer =>
        /\ exc = "none"
        /\ url_len = 0
        /\ indexes = <<>>
        /\ mask_url = <<>>
        /\ pc = "done" => ret = <<>>

C12_Witness ==
    /\ Unmasked
    /\ Len(Decoded) = 0
    /\ extra[1] = <<>>
    /\ ret = <<>>

(***************************************************************************)
(* C13. The result as a function of the payload, the base, the identity.   *)
(***************************************************************************)
\* up to the first '#' of a text / between its first and its second '#'
FirstField(a) == SubSeq(a, 1, Find(a, Hash))

SecondField(a) ==
    LET r == From(a, Find(a, Hash) + 1)
        j == Find(r, Hash)
    IN  IF j < 0 THEN r ELSE SubSeq(r, 1, j)

\* the text after the first '?extra=' cut at the next '?extra='
BetweenExtras ==
    LET j == Find(AfterExtra, ExtraDelim)
    IN  IF j < 0 THEN AfterExtra ELSE SubSeq(AfterExtra, 1, j)

\* the integer in the field after chr(11) of the decoded control part
BaseOf(c) ==
    LET d == DecodeAll(c)
    IN  ParseInt(From(d, Find(d, ControlSep) + 1)).val

\* C13 as stated: P is the text between the first '?extra=' and the next
\* '#', C the text between that '#' and the following '#' (or the end), and
\* the result is unmask(decode(P), B XOR identity), B read from decode(C).
C13_ResultFromPayloadAndControl ==
    Unmasked =>
        /\ extra[1] = FirstField(AfterExtra)
        /\ extra[2] = SecondField(AfterExtra)
        /\ ret = UnmaskAll(DecodeAll(FirstField(AfterExtra)),
                           Xor(BaseOf(SecondField(AfterExtra)), vk_id))

\* C13 amended: P and C are taken from E, the text between the first
\* '?extra=' and the next '?extra=' (or the end): P is E up to its first
\* '#', C is E between its first and second '#' (or its end); the result is
\* unmask(decode(P), B XOR identity), B the integer after chr(11) of
\* decode(C); the function-name field does not enter the result.
C13_ResultFromFieldsOfFirstExtra ==
    Unmasked =>
        /\ extra[1] = FirstField(BetweenExtras)
        /\ extra[2] = SecondField(BetweenExtras)
        /\ ret = UnmaskAll(DecodeAll(FirstField(BetweenExtras)),
                           Xor(BaseOf(SecondField(BetweenExtras)), vk_id))

C13_Witness ==
    /\ Unmasked
    /\ Contains(AfterExtra, ExtraDelim)
    /\ vk_id # 0
    /\ func # <<>>
    /\ url_len >= 4
    /\ ret # Decoded
    /\ ret = UnmaskAll(Decoded, Xor(ParseInt(base).val, vk_id))

(***************************************************************************)
(* C11. A failing _unmask_url inside the wall-post extraction.             *)
(***************************************************************************)
\* the items of the page with a url, in order
RECURSIVE WithUrl(_)
WithUrl(as) ==
    IF as = <<>> THEN <<>>
    ELSE IF Head(as).url = <<>> THEN WithUrl(Tail(as))
         ELSE <<Head(as)>> \o WithUrl(Tail(as))

\* _unmask_url fails on the url of item a
Fails(a) ==
    /\ Contains(a.url, Marker)
    /\ \/ ~Contains(a.url, ExtraDelim)
       \/ ~Contains(a.url, Hash)
       \/ \E i \in 1..Len(a.url) : a.url[i] = 33

\* C11: when _unmask_url fails on an audio item's url the extraction does
\* not abort; it goes on to return, and the entry of that item carries the
\* raw url.
C11_FailureIsNotFatal ==
    /\ wall # "raised"
    /\ wall = "returned" =>
          /\ Len(entries) = Len(WithUrl(audios))
          /\ \A i \in 1..Len(entries) :
                Fails(WithUrl(audios)[i]) => entries[i] = WithUrl(audios)[i].url

\* what the code does: an exception of _unmask_url ends _real_extract; a
\* returned extraction has met no failing item
C11_FailureAborts ==
    /\ wall = "raised" => exc # "none" /\ Fails(audios[audio_i + 1])
    /\ wall = "returned" => \A i \in 1..Len(audios) : ~Fails(audios[i])

C11_Witness ==
    /\ wall = "raised"
    /\ audio_i = 1
    /\ Len(entries) = 1
    /\ exc = "ValueError"


(***************************************************************************)
(* NetEaseMusicBaseIE (yt_dlp/extractor/neteasemusic.py): the encrypted    *)
(* request of the eapi gateway.  Text and bytes are sequences of code      *)
(* points / byte values, as above.                                         *)
(***************************************************************************)
\* sep.join(strs)
RECURSIVE Join(_, _)
Join(sep, strs) ==
    IF strs = <<>> THEN <<>>
    ELSE IF Len(strs) = 1 THEN strs[1]
         ELSE strs[1] \o sep \o Join(sep, Tail(strs))

\* str(n) of an integer
RECURSIVE NatText(_)
NatText(k) ==
    IF k < 10 THEN <<48 + k>> ELSE NatText(k \div 10) \o <<48 + (k % 10)>>

DecimalText(k) == IF k < 0 THEN <<45>> \o NatText(-k) ELSE NatText(k)

\* f'{k:04}' of a natural number
ZeroPad4(k) ==
    LET t == NatText(k)
    IN  IF Len(t) >= 4 THEN t ELSE [i \in 1..(4 - Len(t)) |-> 48] \o t

\* one lowercase hexadecimal digit
HexDigit(d) == IF d < 10 THEN 48 + d ELSE 87 + d

Keys(items) == [i \in 1..Len(items) |-> items[i].k]

HasKey(items, k) == \E i \in 1..Len(items) : items[i].k = k

\* items[k] of a dict that has the key k
Lookup(items, k) == items[CHOOSE i \in 1..Len(items) : items[i].k = k].v

\* mutant: the new key is put first
SetItemFirst(items, k, v) ==
    <<[k |-> k, v |-> v]>> \o SelectSeq(items, LAMBDA it : it.k # k)

\* {**items, k: v}: an existing key keeps its place, a new key goes last
SetItem(items, k, v) ==
    IF HasKey(items, k)
    THEN [i \in 1..Len(items) |->
             IF items[i].k = k THEN [k |-> k, v |-> v] ELSE items[i]]
    ELSE Append(items, [k |-> k, v |-> v])

\* json.dumps of one character of a str (ensure_ascii)
EscapeChar(c) ==
    IF c = 34 THEN <<92, 34>>    \* '\\"'
    ELSE IF c = 92 THEN <<92, 92>>    \* '\\\\'
    ELSE IF c = 10 THEN <<92, 110>>    \* '\\n'
    ELSE IF c = 13 THEN <<92, 114>>    \* '\\r'
    ELSE IF c = 9 THEN <<92, 116>>    \* '\\t'
    ELSE IF c = 8 THEN <<92, 98>>    \* '\\b'
    ELSE IF c = 12 THEN <<92, 102>>    \* '\\f'
    ELSE IF c < 32 \/ c > 126
         THEN <<92, 117>> \o <<HexDigit(c \div 4096), HexDigit((c \div 256) % 16),    \* '\\u'
                           HexDigit((c \div 16) % 16), HexDigit(c % 16)>>
         ELSE <<c>>

RECURSIVE Escape(_)
Escape(s) == IF s = <<>> THEN <<>> ELSE EscapeChar(Head(s)) \o Escape(Tail(s))

Quoted(s) == <<34>> \o Escape(s) \o <<34>>

\* json.dumps(v, separators=(',', ':')) of a serializable value
RECURSIVE Dumps(_)
Dumps(v) ==
    IF v.t = "str" THEN Quoted(v.s)
    ELSE IF v.t = "int" THEN DecimalText(v.n)
    ELSE IF v.t = "none" THEN <<110, 117, 108, 108>>    \* 'null'
    ELSE <<123>>    \* '{'
         \o Join(<<44>>, [i \in 1..Len(v.d) |->    \* ','
                           Quoted(v.d[i].k) \o <<58>> \o Dumps(v.d[i].v)])    \* ':'
         \o <<125>>    \* '}'


\* mutant: json.dumps takes every value
SerializableAlways(v) == TRUE

\* json.dumps raises TypeError on a value it has no encoding for
RECURSIVE Serializable(_)
Serializable(v) ==
    IF v.t = "obj" THEN FALSE
    ELSE IF v.t = "dict" THEN \A i \in 1..Len(v.d) : Serializable(v.d[i].v)
    ELSE TRUE


\* hashlib.md5(message).hexdigest(): the library digest is represented by
\* a 32-digit lowercase hexadecimal function of the whole message
RECURSIVE Mix(_, _, _)
Mix(s, a, b) ==
    IF a > b THEN 0
    ELSE IF a = b THEN (s[a] * ((a % 251) + 1)) % 65521
    ELSE LET m == (a + b) \div 2
         IN  (Mix(s, a, m) * 31 + Mix(s, m + 1, b)) % 65521

Md5Hex(m) ==
    LET h == Mix(m, 1, Len(m)) + Len(m)
    IN  [i \in 1..32 |-> HexDigit(((h \div Pow2((i - 1) % 13)) + i) % 16)]

\* KEY = b'e82ckenh8dichen8'
\* 'e82ckenh8dichen8'
KEY == <<101, 56, 50, 99, 107, 101, 110, 104, 56, 100, 105, 99, 104, 101, 110, 56>>

BLOCK_SIZE_BYTES == 16

\* utils.bytes_to_intlist / intlist_to_bytes: the list of the code points
\* (byte values) of a text, and back; both are this model's sequences
bytes_to_intlist(bs) == [i \in 1..Len(bs) |-> bs[i]]

intlist_to_bytes(ys) == [i \in 1..Len(ys) |-> ys[i] % 256]

\* aes.pkcs7_padding: standard block padding, a full block when aligned
pkcs7_padding(block) ==
    LET remaining_length == BLOCK_SIZE_BYTES - (Len(block) % BLOCK_SIZE_BYTES)
    IN  block \o [i \in 1..remaining_length |-> remaining_length]

\* aes.aes_ecb_encrypt: every 16-byte block is encrypted on its own under
\* the same key and the output has the length of the input; the block
\* cipher is represented by a keyed bijection on blocks
aes_ecb_encrypt(block, key) ==
    [i \in 1..Len(block) |->
        (block[i] + key[((i - 1) % BLOCK_SIZE_BYTES) + 1]) % 256]

\* binascii.hexlify: two lowercase hexadecimal digits per byte
hexlify(bs) ==
    [i \in 1..(2 * Len(bs)) |->
        IF i % 2 = 1 THEN HexDigit(bs[(i + 1) \div 2] \div 16)
        ELSE HexDigit(bs[i \div 2] % 16)]

\* bytes.upper()
upper(s) == [i \in 1..Len(s) |-> IF s[i] >= 97 /\ s[i] <= 122 THEN s[i] - 32 ELSE s[i]]

\* the cookies dict of _download_eapi_json for a clock reading and a draw
Cookies(now_ms, draw) ==
    <<[k |-> <<111, 115, 118, 101, 114>>, v |-> NoneV],    \* 'osver'
      [k |-> <<100, 101, 118, 105, 99, 101, 73, 100>>, v |-> NoneV],    \* 'deviceId'
      \* 'appver', '8.0.0'
      [k |-> <<97, 112, 112, 118, 101, 114>>, v |-> StrV(<<56, 46, 48, 46, 48>>)],
      \* 'versioncode', '140'
      [k |-> <<118, 101, 114, 115, 105, 111, 110, 99, 111, 100, 101>>, v |-> StrV(<<49, 52, 48>>)],
      [k |-> <<109, 111, 98, 105, 108, 101, 110, 97, 109, 101>>, v |-> NoneV],    \* 'mobilename'
      \* 'buildver', '1623435496'
      [k |-> <<98, 117, 105, 108, 100, 118, 101, 114>>, v |-> StrV(<<49, 54, 50, 51, 52, 51, 53, 52, 57, 54>>)],
      \* 'resolution', '1920x1080'
      [k |-> <<114, 101, 115, 111, 108, 117, 116, 105, 111, 110>>, v |-> StrV(<<49, 57, 50, 48, 120, 49, 48, 56, 48>>)],
      [k |-> <<95, 95, 99, 115, 114, 102>>, v |-> StrV(<<>>)],    \* '__csrf'
      [k |-> <<111, 115>>, v |-> StrV(<<112, 99>>)],    \* 'os', 'pc'
      [k |-> <<99, 104, 97, 110, 110, 101, 108>>, v |-> NoneV],    \* 'channel'
      [k |-> <<114, 101, 113, 117, 101, 115, 116, 73, 100>>,    \* 'requestId'
       v |-> StrV(DecimalText(now_ms) \o <<95>> \o ZeroPad4(draw))]>>    \* '_'

\* mutant: an unset value is written as str(None)
CookiePairNone(it) ==
    it.k \o <<61>> \o (IF it.v.t = "none" THEN <<78, 111, 110, 101>> ELSE it.v.s)    \* '=', 'None'

\* f'{k}={v if v is not None else "undefined"}'
CookiePair(it) ==
    \* '=', 'undefined'
    it.k \o <<61>> \o (IF it.v.t = "none" THEN <<117, 110, 100, 101, 102, 105, 110, 101, 100>> ELSE it.v.s)

\* '; '.join([... for [k, v] in cookies.items()])
CookieHeader(items) == Join(<<59, 32>>, [i \in 1..Len(items) |-> CookiePair(items[i])])    \* '; '

\* the headers dict of _download_eapi_json
Headers(ua, items) ==
    <<[k |-> <<85, 115, 101, 114, 45, 65, 103, 101, 110, 116>>, v |-> ua],    \* 'User-Agent'
      \* 'Content-Type', 'application/x-www-form-urlencoded'
      [k |-> <<67, 111, 110, 116, 101, 110, 116, 45, 84, 121, 112, 101>>, v |-> StrV(<<97, 112, 112, 108, 105, 99, 97, 116, 105, 111, 110, 47, 120, 45, 119, 119, 119, 45, 102, 111, 114, 109, 45, 117, 114, 108, 101, 110, 99, 111, 100, 101, 100>>)],
      \* 'Referer', 'https://music.163.com'
      [k |-> <<82, 101, 102, 101, 114, 101, 114>>, v |-> StrV(<<104, 116, 116, 112, 115, 58, 47, 47, 109, 117, 115, 105, 99, 46, 49, 54, 51, 46, 99, 111, 109>>)],
      [k |-> <<67, 111, 111, 107, 105, 101>>, v |-> StrV(CookieHeader(items))]>>    \* 'Cookie'

\* utils.urljoin(base, path) for a base ending in '/' and an absolute path
urljoin(b, p) == SubSeq(b, 1, Len(b) - 1) \o p

\* mutant: the signed path is the requested path
ApiPathAsRequested(p) == <<47, 101, 97, 112, 105>> \o p    \* '/eapi'

\* f'/api{path}'
ApiPath(p) == <<47, 97, 112, 105>> \o p    \* '/api'

\* f'/eapi{path}'
EapiPath(p) == <<47, 101, 97, 112, 105>> \o p    \* '/eapi'

\* mutant: the digest is taken over the path and the text without 'use'
MessageWithoutUse(p, text) ==
    \* 'nobody', 'md5forencrypt'
    <<110, 111, 98, 111, 100, 121>> \o p \o text \o <<109, 100, 53, 102, 111, 114, 101, 110, 99, 114, 121, 112, 116>>

\* f'nobody{api_path}use{request_text}md5forencrypt'.encode('latin1')
Message(p, text) ==
    \* 'nobody', 'use', 'md5forencrypt'
    <<110, 111, 98, 111, 100, 121>> \o p \o <<117, 115, 101>> \o text \o <<109, 100, 53, 102, 111, 114, 101, 110, 99, 114, 121, 112, 116>>

\* f'{api_path}-36cd479b6b5-{request_text}-36cd479b6b5-{msg_digest}'
Plaintext(p, text, digest) ==
    \* '-36cd479b6b5-', '-36cd479b6b5-'
    p \o <<45, 51, 54, 99, 100, 52, 55, 57, 98, 54, 98, 53, 45>> \o text \o <<45, 51, 54, 99, 100, 52, 55, 57, 98, 54, 98, 53, 45>> \o digest


(***************************************************************************)
(* Calls of _download_eapi_json                                            *)
(***************************************************************************)
MaxCalls == 2       \* calls of _download_eapi_json in one behaviour
MaxIdLen == 15      \* longest song id of the enumerated player queries

\* '/song/enhance/player/url'
PlayerPath == <<47, 115, 111, 110, 103, 47, 101, 110, 104, 97, 110, 99, 101, 47, 112, 108, 97, 121, 101, 114, 47, 117, 114, 108>>

\* '/v3/playlist/detail'
PlaylistPath == <<47, 118, 51, 47, 112, 108, 97, 121, 108, 105, 115, 116, 47, 100, 101, 116, 97, 105, 108>>

Item(key, val) == [k |-> key, v |-> val]

\* {'ids': f'[{song_id}]', 'br': bitrate}
PlayerQuery(id, br) ==
    \* 'ids', '[', ']', 'br'
    <<Item(<<105, 100, 115>>, StrV(<<91>> \o id \o <<93>>)), Item(<<98, 114>>, IntV(br))>>

\* {'id': list_id, 't': '-1', 'n': '500', 's': '0'}
PlaylistQuery(list_id) ==
    <<Item(<<105, 100>>, StrV(list_id)), Item(<<116>>, StrV(<<45, 49>>)),    \* 'id', 't', '-1'
      Item(<<110>>, StrV(<<53, 48, 48>>)), Item(<<115>>, StrV(<<48>>))>>    \* 'n', '500', 's', '0'

\* queries of other shapes: a 'header' key of its own (first, with a str
\* and with an unserializable value), an unserializable value at the top
\* and inside a dict, characters json escapes
OtherQueries ==
    \* 'header', 'x', 'br'
    {<<Item(<<104, 101, 97, 100, 101, 114>>, StrV(<<120>>)), Item(<<98, 114>>, IntV(-1))>>,
     <<Item(<<104, 101, 97, 100, 101, 114>>, ObjV)>>,    \* 'header'
     \* 'ids', '[1]', 'br'
     <<Item(<<105, 100, 115>>, StrV(<<91, 49, 93>>)), Item(<<98, 114>>, ObjV)>>,
     <<Item(<<105, 100, 115>>, DictV(<<Item(<<120>>, ObjV)>>))>>,    \* 'ids', 'x'
     \* 'ids', 'br'
     <<Item(<<105, 100, 115>>, StrV(<<34, 92, 10, 233>>)), Item(<<98, 114>>, NoneV)>>}

\* song ids '', '1', '11', ...: plaintexts of consecutive lengths
SongIds == {[i \in 1..len |-> 49] : len \in 0..MaxIdLen}

NoUserAgent == NoneV

Call(p, q, ua, t, r) == [path |-> p, query |-> q, user_agent |-> ua, now |-> t, rand |-> r]

EapiInputs ==
    {Call(PlayerPath, PlayerQuery(id, 128000), NoUserAgent, 12, 7) : id \in SongIds}
    \cup
    {Call(p, q, NoUserAgent, 12, 7) :
        p \in {PlayerPath, PlaylistPath},
        q \in OtherQueries \cup {PlaylistQuery(<<49>>)}}
    \cup
    {Call(PlayerPath, PlayerQuery(<<49>>, 128000), c[1], c[2], c[3]) :
        c \in {<<NoUserAgent, 13, 7>>, <<NoUserAgent, 12, 1000>>,
               <<StrV(<<85, 65>>), 0, 0>>, <<StrV(<<85, 65>>), 12, 7>>}}

InitEapi == UnmaskIdle /\ WallIdle /\ EapiIdle /\ MoreIdle

InCall(at) == eapi = at /\ eapi_exc = "none"

\* def _download_eapi_json(self, path, song_id, query, ...): cookies = {...}
CallEapi ==
    /\ eapi \in {"idle", "returned"}
    /\ calls < MaxCalls
    /\ \E c \in EapiInputs :
          /\ path' = c.path
          /\ query' = c.query
          /\ user_agent' = c.user_agent
          /\ now' = c.now
          /\ rand' = c.rand
          /\ cookies' = Cookies(c.now, c.rand)
    /\ last' = IF eapi = "returned"
               THEN [api_path |-> api_path, query |-> query,
                     cookies |-> cookies, body |-> eapi_data]
               ELSE last
    /\ calls' = calls + 1
    /\ headers' = <<>>
    /\ url' = <<>>
    /\ sent' = NoRequest
    /\ api_path' = <<>>
    /\ merged' = <<>>
    /\ request_text' = <<>>
    /\ message' = <<>>
    /\ msg_digest' = <<>>
    /\ plaintext' = <<>>
    /\ data' = <<>>
    /\ encrypted' = <<>>
    /\ eapi_data' = <<>>
    /\ eapi' = "headers"
    /\ UNCHANGED eapi_exc

\* headers = {...}; url = urljoin('https://interface3.music.163.com/', f'/eapi{path}')
BuildHeaders ==
    /\ InCall("headers")
    /\ headers' = Headers(user_agent, cookies)
    \* 'https://interface3.music.163.com/'
    /\ url' = urljoin(<<104, 116, 116, 112, 115, 58, 47, 47, 105, 110, 116, 101, 114, 102, 97, 99, 101, 51, 46, 109, 117, 115, 105, 99, 46, 49, 54, 51, 46, 99, 111, 109, 47>>, EapiPath(path))
    /\ eapi' = "cipher"
    /\ UNCHANGED <<path, query, user_agent, now, rand, cookies, sent, api_path,
                   merged, request_text, message, msg_digest, plaintext, data,
                   encrypted, eapi_data, eapi_exc, calls, last>>

\* data = self._create_eapi_cipher(f'/api{path}', query, cookies)
CallCipher ==
    /\ InCall("cipher")
    /\ api_path' = ApiPath(path)
    /\ eapi' = "dumps"
    /\ UNCHANGED <<path, query, user_agent, now, rand, cookies, headers, url,
                   sent, merged, request_text, message, msg_digest, plaintext,
                   data, encrypted, eapi_data, eapi_exc, calls, last>>

\* request_text = json.dumps({**query, 'header': cookies}, separators=(',', ':'))
DumpRequest ==
    /\ InCall("dumps")
    /\ merged' = SetItem(query, <<104, 101, 97, 100, 101, 114>>, DictV(cookies))    \* 'header'
    /\ IF Serializable(DictV(merged'))
       THEN /\ request_text' = Dumps(DictV(merged'))
            /\ eapi' = "digest"
            /\ UNCHANGED eapi_exc
       ELSE /\ eapi_exc' = "TypeError"
            /\ UNCHANGED <<request_text, eapi>>
    /\ UNCHANGED <<path, query, user_agent, now, rand, cookies, headers, url,
                   sent, api_path, message, msg_digest, plaintext, data,
                   encrypted, eapi_data, calls, last>>

\* message = f'nobody{api_path}use{request_text}md5forencrypt'.encode('latin1')
\* msg_digest = md5(message).hexdigest()
DigestMessage ==
    /\ InCall("digest")
    /\ message' = Message(api_path, request_text)
    /\ msg_digest' = Md5Hex(message')
    /\ eapi' = "pad"
    /\ UNCHANGED <<path, query, user_agent, now, rand, cookies, headers, url,
                   sent, api_path, merged, request_text, plaintext, data,
                   encrypted, eapi_data, eapi_exc, calls, last>>



\* mutant: the number of the call is written into the text
PadPlaintextWithCallNumber ==
    /\ InCall("pad")
    /\ plaintext' = Plaintext(api_path, request_text \o NatText(calls), msg_digest)
    /\ data' = pkcs7_padding(bytes_to_intlist(plaintext'))
    /\ eapi' = "encrypt"
    /\ UNCHANGED <<path, query, user_agent, now, rand, cookies, headers, url,
                   sent, api_path, merged, request_text, message, msg_digest,
                   encrypted, eapi_data, eapi_exc, calls, last>>

\* mutant: the text is handed to the cipher unpadded
PadPlaintextLeftToCipher ==
    /\ InCall("pad")
    /\ plaintext' = Plaintext(api_path, request_text, msg_digest)
    /\ data' = bytes_to_intlist(plaintext')
    /\ eapi' = "encrypt"
    /\ UNCHANGED <<path, query, user_agent, now, rand, cookies, headers, url,
                   sent, api_path, merged, request_text, message, msg_digest,
                   encrypted, eapi_data, eapi_exc, calls, last>>

\* data = pkcs7_padding(bytes_to_intlist(f'{api_path}-36cd479b6b5-...'))
PadPlaintext ==
    /\ InCall("pad")
    /\ plaintext' = Plaintext(api_path, request_text, msg_digest)
    /\ data' = pkcs7_padding(bytes_to_intlist(plaintext'))
    /\ eapi' = "encrypt"
    /\ UNCHANGED <<path, query, user_agent, now, rand, cookies, headers, url,
                   sent, api_path, merged, request_text, message, msg_digest,
                   encrypted, eapi_data, eapi_exc, calls, last>>

\* encrypted = intlist_to_bytes(aes_ecb_encrypt(data, bytes_to_intlist(KEY)))
Encrypt ==
    /\ InCall("encrypt")
    /\ encrypted' = intlist_to_bytes(aes_ecb_encrypt(data, bytes_to_intlist(KEY)))
    /\ eapi' = "hex"
    /\ UNCHANGED <<path, query, user_agent, now, rand, cookies, headers, url,
                   sent, api_path, merged, request_text, message, msg_digest,
                   plaintext, data, eapi_data, eapi_exc, calls, last>>


\* mutant: the hexadecimal text is returned as hexlify gives it
ReturnBodyLowercase ==
    /\ InCall("hex")
    /\ eapi_data' = <<112, 97, 114, 97, 109, 115, 61>> \o hexlify(encrypted)    \* 'params='
    /\ eapi' = "send"
    /\ UNCHANGED <<path, query, user_agent, now, rand, cookies, headers, url,
                   sent, api_path, merged, request_text, message, msg_digest,
                   plaintext, data, encrypted, eapi_exc, calls, last>>

\* return b'params=' + hexlify(encrypted).upper()
ReturnBody ==
    /\ InCall("hex")
    /\ eapi_data' = <<112, 97, 114, 97, 109, 115, 61>> \o upper(hexlify(encrypted))    \* 'params='
    /\ eapi' = "send"
    /\ UNCHANGED <<path, query, user_agent, now, rand, cookies, headers, url,
                   sent, api_path, merged, request_text, message, msg_digest,
                   plaintext, data, encrypted, eapi_exc, calls, last>>

\* return self._download_json(url, song_id, data=data, headers=headers, **kwargs)
SendRequest ==
    /\ InCall("send")
    /\ sent' = [url |-> url, data |-> eapi_data, headers |-> headers]
    /\ eapi' = "returned"
    /\ UNCHANGED <<path, query, user_agent, now, rand, cookies, headers, url,
                   api_path, merged, request_text, message, msg_digest,
                   plaintext, data, encrypted, eapi_data, eapi_exc, calls, last>>

\* the exception of json.dumps leaves _create_eapi_cipher and
\* _download_eapi_json: neither has a try statement
RaiseOut ==
    /\ eapi_exc # "none"
    /\ eapi # "raised"
    /\ eapi' = "raised"
    /\ UNCHANGED <<path, query, user_agent, now, rand, cookies, headers, url,
                   sent, api_path, merged, request_text, message, msg_digest,
                   plaintext, data, encrypted, eapi_data, eapi_exc, calls, last>>

NextEapi ==
    \/ CallEapi /\ UNCHANGED <<unmaskVars, wallVars, moreVars>>
    \/ BuildHeaders /\ UNCHANGED <<unmaskVars, wallVars, moreVars>>
    \/ CallCipher /\ UNCHANGED <<unmaskVars, wallVars, moreVars>>
    \/ DumpRequest /\ UNCHANGED <<unmaskVars, wallVars, moreVars>>
    \/ DigestMessage /\ UNCHANGED <<unmaskVars, wallVars, moreVars>>
    \/ PadPlaintext /\ UNCHANGED <<unmaskVars, wallVars, moreVars>>
    \/ Encrypt /\ UNCHANGED <<unmaskVars, wallVars, moreVars>>
    \/ ReturnBody /\ UNCHANGED <<unmaskVars, wallVars, moreVars>>
    \/ SendRequest /\ UNCHANGED <<unmaskVars, wallVars, moreVars>>
    \/ RaiseOut /\ UNCHANGED <<unmaskVars, wallVars, moreVars>>

SpecEapi == InitEapi /\ [][NextEapi]_vars


(***************************************************************************)
(* Positions of a call of _download_eapi_json                              *)
(***************************************************************************)
\* json.dumps has returned request_text
Dumped == eapi \in {"digest", "pad", "encrypt", "hex", "send", "returned"}

\* msg_digest has been computed
Digested == eapi \in {"pad", "encrypt", "hex", "send", "returned"}

\* the plaintext has been composed and padded
Padded == eapi \in {"encrypt", "hex", "send", "returned"}

\* _create_eapi_cipher has returned
CipherReturned == eapi \in {"send", "returned"}

HeaderKey == <<104, 101, 97, 100, 101, 114>>    \* 'header'

(***************************************************************************)
(* C14. The plaintext and the digest inside it.                            *)
(***************************************************************************)
\* C14: the text that is padded and encrypted is api_path + '-36cd479b6b5-'
\* + request_text + '-36cd479b6b5-' + digest, the digest being the hex MD5
\* of 'nobody' + api_path + 'use' + request_text + 'md5forencrypt' over the
\* same api_path and request_text.
C14_PlaintextAndDigest ==
    /\ Digested =>
          \* 'nobody', 'use'
          /\ message = <<110, 111, 98, 111, 100, 121>> \o api_path \o <<117, 115, 101>> \o request_text
                         \* 'md5forencrypt'
                         \o <<109, 100, 53, 102, 111, 114, 101, 110, 99, 114, 121, 112, 116>>
          /\ msg_digest = Md5Hex(message)
    /\ Padded =>
          \* '-36cd479b6b5-'
          /\ plaintext = api_path \o <<45, 51, 54, 99, 100, 52, 55, 57, 98, 54, 98, 53, 45>> \o request_text
                           \* '-36cd479b6b5-'
                           \o <<45, 51, 54, 99, 100, 52, 55, 57, 98, 54, 98, 53, 45>> \o msg_digest
          /\ Len(data) > Len(plaintext)
          /\ SubSeq(data, 1, Len(plaintext)) = plaintext

C14_Witness ==
    /\ eapi = "returned"
    /\ path = PlaylistPath
    /\ Len(msg_digest) = 32
    /\ Contains(plaintext, request_text)
    /\ Contains(message, request_text)

(***************************************************************************)
(* C15. The mapping given to json.dumps.                                   *)
(***************************************************************************)
KeySet(items) == {items[i].k : i \in 1..Len(items)}

\* C15: the serialized mapping has exactly the payload's keys plus
\* 'header', each once; 'header' maps to the whole cookie mapping and every
\* other key keeps its payload value; for a payload without a 'header' key
\* the keys are serialized in the payload's order, 'header' last.
C15_MergedMapping ==
    merged # <<>> =>
        /\ KeySet(merged) = KeySet(query) \cup {HeaderKey}
        /\ Cardinality(KeySet(merged)) = Len(merged)
        /\ Lookup(merged, HeaderKey) = DictV(cookies)
        /\ \A i \in 1..Len(query) :
              query[i].k # HeaderKey => Lookup(merged, query[i].k) = query[i].v
        /\ ~HasKey(query, HeaderKey) => Keys(merged) = Keys(query) \o <<HeaderKey>>
        /\ Dumped => request_text = Dumps(DictV(merged))
        /\ (Dumped /\ ~HasKey(query, HeaderKey)) =>
              request_text =
                  <<123>>    \* '{'
                  \o Join(<<44>>,    \* ','
                          [i \in 1..Len(query) |->
                              Quoted(query[i].k) \o <<58>> \o Dumps(query[i].v)]    \* ':'
                          \o <<Quoted(HeaderKey) \o <<58>> \o Dumps(DictV(cookies))>>)    \* ':'
                  \o <<125>>    \* '}'

C15_Witness ==
    /\ eapi = "returned"
    /\ Len(query) = 4
    /\ ~HasKey(query, HeaderKey)
    /\ Len(merged) = 5
    /\ merged[5].k = HeaderKey


(***************************************************************************)
(* C16. Padding of the plaintext.                                          *)
(***************************************************************************)
\* C16: a plaintext of length 16k + r, 0 < r < 16, gets 16 - r bytes of
\* value 16 - r appended; an aligned plaintext gets 16 bytes of value 16;
\* the padded length is a multiple of 16 and greater than the plaintext's.
C16_Padding ==
    Padded =>
        LET len == Len(plaintext)
            r == len % 16
            added == Len(data) - len
        IN  /\ Len(data) > len
            /\ SubSeq(data, 1, len) = plaintext
            /\ r > 0 => added = 16 - r
            /\ r = 0 => added = 16
            /\ \A i \in (len + 1)..Len(data) : data[i] = added
            /\ Len(data) % 16 = 0

C16_Witness ==
    /\ eapi = "returned"
    /\ Len(plaintext) % 16 = 0
    /\ Len(data) = Len(plaintext) + 16
    /\ data[Len(data)] = 16

(***************************************************************************)
(* C17. The returned request body.                                         *)
(***************************************************************************)
\* value of an uppercase hexadecimal digit
HexValue(c) == IF c <= 57 THEN c - 48 ELSE c - 55

\* C17: the body is 'params=' followed by the uppercase hexadecimal
\* encoding of the ciphertext; the ciphertext is as long as the padded
\* plaintext, so the body has 7 + 2 * len(padded plaintext) bytes, each
\* after the prefix one of 0-9, A-F.
C17_BodyIsPrefixAndUpperHex ==
    CipherReturned =>
        /\ Len(encrypted) = Len(data)
        /\ Len(eapi_data) = 7 + 2 * Len(data)
        /\ SubSeq(eapi_data, 1, 7) = <<112, 97, 114, 97, 109, 115, 61>>    \* 'params='
        /\ \A i \in 8..Len(eapi_data) : eapi_data[i] \in (48..57) \cup (65..70)
        /\ \A j \in 1..Len(encrypted) :
              16 * HexValue(eapi_data[6 + 2 * j]) + HexValue(eapi_data[7 + 2 * j])
                  = encrypted[j]

C17_Witness ==
    /\ eapi = "returned"
    /\ sent.data = eapi_data
    /\ Len(eapi_data) > 7
    /\ \E i \in 8..Len(eapi_data) : eapi_data[i] \in 65..70


(***************************************************************************)
(* C18. Determinism of the cipher.                                         *)
(***************************************************************************)
RequestIdKey == <<114, 101, 113, 117, 101, 115, 116, 73, 100>>    \* 'requestId'

\* C18: two calls of _create_eapi_cipher with the same api_path, query and
\* cookies return the same bytes; between two calls the cookies differ at
\* most in 'requestId', the one value made from the clock and the draw.
C18_CipherDeterminism ==
    /\ (CipherReturned /\ last # NoLast /\ last.api_path = api_path
          /\ last.query = query /\ last.cookies = cookies)
         => last.body = eapi_data
    /\ (cookies # <<>> /\ last # NoLast) =>
          /\ Keys(cookies) = Keys(last.cookies)
          /\ \A i \in 1..Len(cookies) :
                cookies[i].k # RequestIdKey => cookies[i].v = last.cookies[i].v
    /\ cookies # <<>> =>
          Lookup(cookies, RequestIdKey)
              = StrV(DecimalText(now) \o <<95>> \o ZeroPad4(rand))    \* '_'

C18_Witness ==
    /\ eapi = "returned"
    /\ last # NoLast
    /\ last.api_path = api_path
    /\ last.query = query
    /\ last.cookies = cookies
    /\ last.body = eapi_data
    /\ Len(eapi_data) > 7

(***************************************************************************)
(* C19. A payload json.dumps cannot serialize.                             *)
(***************************************************************************)
RECURSIVE HasObject(_)
HasObject(v) ==
    \/ v.t = "obj"
    \/ v.t = "dict" /\ \E i \in 1..Len(v.d) : HasObject(v.d[i].v)

\* the merged mapping of this query cannot be serialized
Unserializable(q) == \E i \in 1..Len(q) : q[i].k # HeaderKey /\ HasObject(q[i].v)

\* C19: when the payload cannot be serialized the call ends in an error
\* that leaves _download_eapi_json: json.dumps raises, no later step of the
\* call runs, no body is produced, no request is sent, no call is started
\* again.
C19_SerializationFailureIsFatal ==
    /\ [](Unserializable(query) =>
            /\ ~Dumped
            /\ request_text = <<>>
            /\ eapi_data = <<>>
            /\ sent = NoRequest)
    /\ [][(eapi = "dumps" /\ eapi_exc = "none" /\ Unserializable(query))
            => eapi_exc' = "TypeError"]_vars
    /\ [][eapi_exc # "none" =>
            /\ eapi' = "raised"
            /\ eapi_exc' = eapi_exc
            /\ calls' = calls
            /\ sent' = sent
            /\ eapi_data' = eapi_data]_vars

C19_Witness ==
    /\ eapi = "raised"
    /\ eapi_exc = "TypeError"
    /\ Unserializable(query)
    /\ calls = 2
    /\ last # NoLast
    /\ sent = NoRequest

(***************************************************************************)
(* C20. The Cookie header.                                                 *)
(***************************************************************************)
CookieKey == <<67, 111, 111, 107, 105, 101>>    \* 'Cookie'

\* 'k=v' pairs joined by '; ', 'undefined' for None
RECURSIVE ExpectedCookie(_)
ExpectedCookie(items) ==
    IF items = <<>> THEN <<>>
    ELSE Head(items).k \o <<61>>    \* '='
         \* 'undefined'
         \o (IF Head(items).v = NoneV THEN <<117, 110, 100, 101, 102, 105, 110, 101, 100>> ELSE Head(items).v.s)
         \o (IF Len(items) > 1 THEN <<59, 32>> \o ExpectedCookie(Tail(items)) ELSE <<>>)    \* '; '

ConsumesSymbol ==
    /\ pc \in {"dec_ctl", "dec_payload"}
    /\ call'.enc = call.enc
    /\ call'.n = call.n + 1

\* (-2 * position) mod 8
ShiftAt(position) == (8 - ((2 * position) % 8)) % 8

\* C22: a symbol that is the 1st of its group of four resets the
\* accumulator to its value and emits nothing; a 2nd, 3rd or 4th symbol sets
\* the accumulator to accumulator * 64 + value and emits one character, the
\* low 8 bits of the accumulator shifted right by (-2 * position) mod 8,
\* position being the 1-based count of symbols consumed.
C22_DecodeStep ==
    [][ConsumesSymbol =>
          LET position == call'.n
              value == Val(position)
          IN  IF position % 4 = 1
              THEN /\ call'.e = value
                   /\ call'.dec = call.dec
              ELSE /\ call'.e = call.e * 64 + value
                   /\ call'.dec =
                        Append(call.dec,
                               (call'.e \div Pow2(ShiftAt(position))) % 256)]_vars

C22_Witness ==
    /\ DecodeFinished
    /\ Len(call.enc) = 7
    /\ Len(call.dec) = 5
    /\ call.e > 255

(***************************************************************************)
(* C23. The recurrence of the index table.                                 *)
(***************************************************************************)
\* the seed: int(base) ^ vk_id
Seed == Xor(ParseInt(base).val, vk_id)

\* C23: the table is built from index = seed, for n from L-1 down to 0:
\* index becomes ((L * (n + 1)) XOR (index + n)) mod L and T[n] is set to
\* it, each step using the index of the step before.
C23_TableRecurrence ==
    /\ [][(pc = "seed" /\ pc' = "build") =>
            /\ index' = Seed
            /\ n' = url_len - 1]_vars
    /\ [][(pc = "build" /\ pc' = "build" /\ exc' = "none") =>
            /\ n \in 0..(url_len - 1)
            /\ n' = n - 1
            /\ index' = Xor(url_len * (n + 1), index + n) % url_len
            /\ indexes' = [indexes EXCEPT ![n + 1] = index']]_vars
    /\ [][(pc = "build" /\ pc' = "swap") => n = -1]_vars

C23_Witness ==
    /\ exc = "none"
    /\ pc = "swap"
    /\ n = 1
    /\ url_len = 5
    /\ vk_id = 2
    /\ \E i \in 1..url_len : indexes[i] # indexes[1]

(***************************************************************************)
(* C24. The swaps of the restore step.                                     *)
(***************************************************************************)
\* C24: the restore step makes exactly L - 1 swaps, for n = 1, ..., L - 1
\* in this order; the n-th exchanges buffer[n] and buffer[T[L-1-n]] of the
\* buffer as the swaps before left it; T[L-1] is never a target.
C24_SwapsInAscendingOrder ==
    /\ [][(pc = "build" /\ pc' = "swap") => n' = 1]_vars
    /\ [][(pc = "swap" /\ pc' = "swap" /\ exc' = "none") =>
            /\ n \in 1..(url_len - 1)
            /\ n' = n + 1
            /\ (url_len - 1 - n) \in 0..(url_len - 2)
            /\ index' = indexes[(url_len - 1 - n) + 1]
            /\ mask_url' = Exchange(mask_url, n + 1, index' + 1)
            /\ indexes' = indexes]_vars
    /\ [][(pc = "swap" /\ pc' = "done") =>
            /\ n - 1 = (IF url_len > 0 THEN url_len - 1 ELSE 0)
            /\ ret' = mask_url]_vars

C24_Witness ==
    /\ Unmasked
    /\ url_len = 4
    /\ n = 4
    /\ index = indexes[1]
    /\ ret # Decoded

(***************************************************************************)
(* C25. The entries of the index table are positions of the buffer.        *)
(***************************************************************************)
\* C25: for every L > 0 and every seed, negative ones included, every
\* entry written to the table is in 0..L-1, and every swap reads and
\* writes positions of the buffer only.
C25_EntriesAndSwapsInBounds ==
    /\ [](pc \in {"build", "swap"} =>
            \A i \in (IF pc = "build" THEN n + 2 ELSE 1)..url_len :
                indexes[i] \in 0..(url_len - 1))
    /\ [][(pc = "swap" /\ pc' = "swap" /\ exc' = "none") =>
            /\ n \in 0..(Len(mask_url) - 1)
            /\ index' \in 0..(Len(mask_url) - 1)
            /\ Len(mask_url') = Len(mask_url)]_vars

C25_Witness ==
    /\ Unmasked
    /\ url_len >= 4
    /\ Seed < 0
    /\ \A i \in 1..url_len : indexes[i] \in 0..(url_len - 1)


(***************************************************************************)
(* Several invocations of _unmask_url in progress at once.  Every name     *)
(* that _decode and _unmask_url assign is a local of the invocation; the   *)
(* variables of the running invocation are the ones above, the locals of   *)
(* the others are parked until the scheduler switches to them.             *)
(***************************************************************************)
MaxPar == 2     \* invocations in progress at once

\* the locals of the running invocation
Frame ==
    [mask_url0 |-> mask_url0, vk_id |-> vk_id, mask_url |-> mask_url,
     extra |-> extra, parts |-> parts, func |-> func, base |-> base,
     call |-> call, url_len |-> url_len, indexes |-> indexes, index |-> index,
     n |-> n, pc |-> pc, exc |-> exc, ret |-> ret]

\* the locals at the entry of _unmask_url(u, v)
NewFrame(u, v) ==
    [mask_url0 |-> u, vk_id |-> v, mask_url |-> u,
     extra |-> <<>>, parts |-> <<>>, func |-> <<>>, base |-> <<>>,
     call |-> NoCall, url_len |-> 0, indexes |-> <<>>, index |-> 0,
     n |-> 0, pc |-> "check", exc |-> "none", ret |-> <<>>]

\* 'h', a masked 'abcd' keyed by 'f', 11, '5', and a control part 'z!'
ParInputs ==
    {[url |-> <<104>>, id |-> 0],
     [url |-> <<104>> \o Marker \o ExtraDelim
                 \o FromIdx(<<24, 22, 9, 35, 25, 0>>) \o Hash
                 \o FromIdx(<<25, 32, 44, 53>>),
      id |-> 2],
     [url |-> <<104>> \o Marker \o ExtraDelim
                 \o FromIdx(<<24, 22, 9, 35, 25, 0>>) \o Hash \o <<122, 33>>,
      id |-> 1]}

EntryFrames == {NewFrame(a.url, a.id) : a \in ParInputs}

\* what SpecPar leaves alone
parRest == <<wallVars, eapiVars, playerVars, fmtVars, trillerVars,
    lazyVars>>

ParRestIdle ==
    WallIdle /\ EapiIdle /\ PlayerIdle /\ FormatsIdle /\ TrillerIdle
        /\ LazyIdle

\* MaxPar invocations entered, none has taken a step
InitPar ==
    /\ \E f \in EntryFrames :
        /\ mask_url0 = f.mask_url0
        /\ vk_id = f.vk_id
        /\ mask_url = f.mask_url
        /\ extra = f.extra
        /\ parts = f.parts
        /\ func = f.func
        /\ base = f.base
        /\ call = f.call
        /\ url_len = f.url_len
        /\ indexes = f.indexes
        /\ index = f.index
        /\ n = f.n
        /\ pc = f.pc
        /\ exc = f.exc
        /\ ret = f.ret
    /\ parked \in [1..(MaxPar - 1) -> EntryFrames]
    /\ ParRestIdle

\* mutant: the state of _decode kept in one place for all invocations
ResumeSharedDecoder(f) ==
    /\ mask_url0' = f.mask_url0
    /\ vk_id' = f.vk_id
    /\ mask_url' = f.mask_url
    /\ extra' = f.extra
    /\ parts' = f.parts
    /\ func' = f.func
    /\ base' = f.base
    /\ call' = call
    /\ url_len' = f.url_len
    /\ indexes' = f.indexes
    /\ index' = f.index
    /\ n' = f.n
    /\ pc' = f.pc
    /\ exc' = f.exc
    /\ ret' = f.ret

\* an invocation continues with the locals it had when it was suspended
Resume(f) ==
    /\ mask_url0' = f.mask_url0
    /\ vk_id' = f.vk_id
    /\ mask_url' = f.mask_url
    /\ extra' = f.extra
    /\ parts' = f.parts
    /\ func' = f.func
    /\ base' = f.base
    /\ call' = f.call
    /\ url_len' = f.url_len
    /\ indexes' = f.indexes
    /\ index' = f.index
    /\ n' = f.n
    /\ pc' = f.pc
    /\ exc' = f.exc
    /\ ret' = f.ret

\* the scheduler suspends the running invocation and continues another
Switch ==
    \E i \in 1..Len(parked) :
        /\ parked' = [parked EXCEPT ![i] = Frame]
        /\ Resume(parked[i])

NextPar ==
    \/ Next
    \/ Switch /\ UNCHANGED parRest

SpecPar == InitPar /\ [][NextPar]_vars

(***************************************************************************)
(* C21. Invocations in progress at once do not affect each other.          *)
(***************************************************************************)
\* every symbol of enc is in the alphabet
DecodeOk(enc) == \A i \in 1..Len(enc) : IndexOf(_BASE64_CHARS, enc[i]) >= 0

Raised(e) == [exc |-> e, ret |-> <<>>]

\* _unmask_url(u, v) run alone from its entry to its end
Alone(u, v) ==
    IF ~Contains(u, Marker) THEN [exc |-> "none", ret |-> u]
    ELSE LET halves == Split(u, ExtraDelim) IN
    IF Len(halves) < 2 THEN Raised("IndexError")
    ELSE LET ex == Split(halves[2], Hash) IN
    IF Len(ex) < 2 THEN Raised("IndexError")
    ELSE IF ~DecodeOk(ex[2]) THEN Raised("ValueError")
    ELSE LET p == Split(DecodeAll(ex[2]), ControlSep) IN
    IF Len(p) # 2 THEN Raised("ValueError")
    ELSE IF ~DecodeOk(ex[1]) THEN Raised("ValueError")
    ELSE IF ~ParseInt(p[2]).ok THEN Raised("ValueError")
    ELSE [exc |-> "none",
          ret |-> UnmaskAll(DecodeAll(ex[1]), Xor(ParseInt(p[2]).val, v))]

\* the running invocation and the suspended ones
Invocations == <<Frame>> \o parked

Finished(f) == f.pc = "done" \/ f.exc # "none"

Outcome(f) == [exc |-> f.exc, ret |-> f.ret]

\* C21: with several invocations of _unmask_url in progress at once, each
\* on its own input, every invocation that ends has the outcome it has when
\* it runs alone, a step of an invocation leaves the locals of the others
\* as they are, and a switch only saves and restores locals.
C21_InvocationsAreIndependent ==
    /\ [](\A i \in 1..Len(Invocations) :
            Finished(Invocations[i]) =>
                Outcome(Invocations[i])
                    = Alone(Invocations[i].mask_url0, Invocations[i].vk_id))
    /\ [][\/ parked' = parked /\ Frame'.mask_url0 = mask_url0
                /\ Frame'.vk_id = vk_id
          \/ \E i \in 1..Len(parked) :
                /\ Frame' = parked[i]
                /\ parked' = [parked EXCEPT ![i] = Frame]]_vars

\* reached: an invocation has unmasked its own input to 'adcb' while
\* another one is suspended in the middle of decoding its payload
C21_Witness ==
    /\ Unmasked
    /\ ret = Alone(mask_url0, vk_id).ret
    /\ ret # DecodeAll(FromIdx(<<24, 22, 9, 35, 25, 0>>))
    /\ \E i \in 1..Len(parked) :
        /\ parked[i].pc = "dec_payload"
        /\ parked[i].exc = "none"
        /\ parked[i].call.n \in 1..(Len(parked[i].call.enc) - 1)


(***************************************************************************)
(* C27. The requested path and the signed path.                            *)
(***************************************************************************)
Take(s, k) == SubSeq(s, 1, k)

\* 'https://interface3.music.163.com'
EapiHost == <<104, 116, 116, 112, 115, 58, 47, 47, 105, 110, 116, 101, 114, 102, 97, 99, 101, 51, 46, 109, 117, 115, 105, 99, 46, 49, 54, 51, 46, 99, 111, 109>>

\* what the plaintext and the digested message begin with for api path a
SignedHead(a) == a \o <<45, 51, 54, 99, 100, 52, 55, 57, 98, 54, 98, 53, 45>>    \* '-36cd479b6b5-'
DigestedHead(a) == <<110, 111, 98, 111, 100, 121>> \o a \o <<117, 115, 101>>    \* 'nobody', 'use'

\* C27: when _download_eapi_json(p, ...) has sent its request, the URL of the
\* request is the host followed by '/eapi' + p, while the text that was
\* digested and the text that was padded and encrypted into the body carry
\* '/api' + p, both built from the same p.
C27_RequestedAndSignedPath ==
    eapi = "returned" =>
        /\ sent.url = EapiHost \o <<47, 101, 97, 112, 105>> \o path    \* '/eapi'
        /\ api_path = <<47, 97, 112, 105>> \o path    \* '/api'
        /\ Take(plaintext, Len(SignedHead(api_path))) = SignedHead(api_path)
        /\ Take(message, Len(DigestedHead(api_path))) = DigestedHead(api_path)
        /\ data = pkcs7_padding(bytes_to_intlist(plaintext))
        /\ sent.data = eapi_data

\* reached: a second call, to '/v3/playlist/detail', has sent its request
C27_Witness ==
    /\ eapi = "returned"
    /\ calls = 2
    /\ path = PlaylistPath
    /\ last.api_path # <<>>
    \* '/eapi/v3/playlist/detail'
    /\ sent.url = EapiHost \o <<47, 101, 97, 112, 105, 47, 118, 51, 47, 112, 108, 97, 121, 108, 105, 115, 116, 47, 100, 101, 116, 97, 105, 108>>


(***************************************************************************)
(* make_player_api_request_data_and_headers, and _call_player_api          *)
(***************************************************************************)
\* KEY = b'e82ckenh8dichen8'
\* 'e82ckenh8dichen8'
PlayerKEY == <<101, 56, 50, 99, 107, 101, 110, 104, 56, 100, 105, 99, 104, 101, 110, 56>>

\* URL = '/api/song/enhance/player/url'
\* '/api/song/enhance/player/url'
PlayerURL == <<47, 97, 112, 105, 47, 115, 111, 110, 103, 47, 101, 110, 104, 97, 110, 99, 101, 47, 112, 108, 97, 121, 101, 114, 47, 117, 114, 108>>

\* cookie = {...}
PlayerCookie(now_ms, draw) ==
    <<Item(<<111, 115, 118, 101, 114>>, NoneV),    \* 'osver'
      Item(<<100, 101, 118, 105, 99, 101, 73, 100>>, NoneV),    \* 'deviceId'
      Item(<<97, 112, 112, 118, 101, 114>>, StrV(<<56, 46, 48, 46, 48>>)),    \* 'appver', '8.0.0'
      \* 'versioncode', '140'
      Item(<<118, 101, 114, 115, 105, 111, 110, 99, 111, 100, 101>>, StrV(<<49, 52, 48>>)),
      Item(<<109, 111, 98, 105, 108, 101, 110, 97, 109, 101>>, NoneV),    \* 'mobilename'
      \* 'buildver', '1623435496'
      Item(<<98, 117, 105, 108, 100, 118, 101, 114>>, StrV(<<49, 54, 50, 51, 52, 51, 53, 52, 57, 54>>)),
      \* 'resolution', '1920x1080'
      Item(<<114, 101, 115, 111, 108, 117, 116, 105, 111, 110>>, StrV(<<49, 57, 50, 48, 120, 49, 48, 56, 48>>)),
      Item(<<95, 95, 99, 115, 114, 102>>, StrV(<<>>)),    \* '__csrf'
      Item(<<111, 115>>, StrV(<<112, 99>>)),    \* 'os', 'pc'
      Item(<<99, 104, 97, 110, 110, 101, 108>>, NoneV),    \* 'channel'
      \* '{0}_{1:04}'.format(now, rand)
      \* 'requestId', '_'
      Item(<<114, 101, 113, 117, 101, 115, 116, 73, 100>>, StrV(DecimalText(now_ms) \o <<95>> \o ZeroPad4(draw)))>>

\* mutant: the bitrate is written before the ids
PlayerRequestDictBrFirst(id, br, cookie) ==
    <<Item(<<98, 114>>, IntV(br)),    \* 'br'
      Item(<<105, 100, 115>>, StrV(<<91>> \o id \o <<93>>)),    \* 'ids', '[', ']'
      Item(<<104, 101, 97, 100, 101, 114>>, DictV(cookie))>>    \* 'header'

\* {'ids': '[{0}]'.format(song_id), 'br': bitrate, 'header': cookie}
PlayerRequestDict(id, br, cookie) ==
    <<Item(<<105, 100, 115>>, StrV(<<91>> \o id \o <<93>>)),    \* 'ids', '[', ']'
      Item(<<98, 114>>, IntV(br)),    \* 'br'
      Item(<<104, 101, 97, 100, 101, 114>>, DictV(cookie))>>    \* 'header'

\* 'nobody{0}use{1}md5forencrypt'.format(URL, request_text).encode('latin1')
PlayerMessage(text) ==
    \* 'nobody', 'use', 'md5forencrypt'
    <<110, 111, 98, 111, 100, 121>> \o PlayerURL \o <<117, 115, 101>> \o text \o <<109, 100, 53, 102, 111, 114, 101, 110, 99, 114, 121, 112, 116>>

\* '{0}-36cd479b6b5-{1}-36cd479b6b5-{2}'.format(URL, request_text, msg_digest)
PlayerData(text, digest) ==
    \* '-36cd479b6b5-', '-36cd479b6b5-'
    PlayerURL \o <<45, 51, 54, 99, 100, 52, 55, 57, 98, 54, 98, 53, 45>> \o text \o <<45, 51, 54, 99, 100, 52, 55, 57, 98, 54, 98, 53, 45>> \o digest

\* '{0}={1}'.format(k, v if v is not None else 'undefined')
PlayerCookiePair(it) ==
    \* '=', 'undefined'
    it.k \o <<61>> \o (IF it.v.t = "none" THEN <<117, 110, 100, 101, 102, 105, 110, 101, 100>> ELSE it.v.s)

\* cookie = '; '.join([... for [k, v] in cookie.items()])
PlayerCookieText(cookie) ==
    Join(<<59, 32>>, [i \in 1..Len(cookie) |-> PlayerCookiePair(cookie[i])])    \* '; '

\* headers = {'User-Agent': ..., 'Content-Type': ..., 'Referer': ..., 'Cookie': cookie}
PlayerHeaders(ua, cookie_text) ==
    <<Item(<<85, 115, 101, 114, 45, 65, 103, 101, 110, 116>>, ua),    \* 'User-Agent'
      \* 'Content-Type', 'application/x-www-form-urlencoded'
      Item(<<67, 111, 110, 116, 101, 110, 116, 45, 84, 121, 112, 101>>, StrV(<<97, 112, 112, 108, 105, 99, 97, 116, 105, 111, 110, 47, 120, 45, 119, 119, 119, 45, 102, 111, 114, 109, 45, 117, 114, 108, 101, 110, 99, 111, 100, 101, 100>>)),
      \* 'Referer', 'https://music.163.com'
      Item(<<82, 101, 102, 101, 114, 101, 114>>, StrV(<<104, 116, 116, 112, 115, 58, 47, 47, 109, 117, 115, 105, 99, 46, 49, 54, 51, 46, 99, 111, 109>>)),
      Item(<<67, 111, 111, 107, 105, 101>>, StrV(cookie_text))>>    \* 'Cookie'

\* the function for a clock reading t, a draw r and the configured agent ua
make_player_api_request_data_and_headers(id, br, t, r, ua) ==
    LET cookie == PlayerCookie(t, r)
        text == Dumps(DictV(PlayerRequestDict(id, br, cookie)))
        digest == Md5Hex(PlayerMessage(text))
        padded == pkcs7_padding(bytes_to_intlist(PlayerData(text, digest)))
        cipher == intlist_to_bytes(
                      aes_ecb_encrypt(padded, bytes_to_intlist(PlayerKEY)))
        encrypted_params == upper(hexlify(cipher))
    IN  [data |-> <<112, 97, 114, 97, 109, 115, 61>> \o encrypted_params,    \* 'params='
         headers |-> PlayerHeaders(ua, PlayerCookieText(cookie)),
         now |-> t, rand |-> r]

\* int(time.time() * 1000), randint(0, 1000), the configured User-Agent
Clock == {12, 13}
Draws == {7, 1000}
Agents == {NoUserAgent, StrV(<<85, 65>>)}    \* 'UA'

PlayerSongIds == {<<49>>, <<49, 56, 54, 48, 49, 54>>}    \* '1', '186016'
PlayerBitrates == {128000, 999000}

\* what SpecPlayer leaves alone
playerRest == <<unmaskVars, wallVars, parVars, fmtVars, trillerVars,
    lazyVars>>

PlayerRestIdle ==
    UnmaskIdle /\ WallIdle /\ ParIdle /\ FormatsIdle /\ TrillerIdle
        /\ LazyIdle

\* a song and a bitrate, before either builder is used
InitPlayer ==
    /\ song_id \in PlayerSongIds
    /\ bitrate \in PlayerBitrates
    /\ made = NoMade
    /\ EapiIdle
    /\ PlayerRestIdle

\* data, headers = self.make_player_api_request_data_and_headers(song_id, bitrate)
MakeRequest ==
    /\ made = NoMade
    /\ \E t \in Clock, r \in Draws, ua \in Agents :
          made' = make_player_api_request_data_and_headers(song_id, bitrate, t, r, ua)
    /\ UNCHANGED <<song_id, bitrate>>

\* _call_player_api(song_id, bitrate): self._download_eapi_json(
\*     '/song/enhance/player/url', song_id, {'ids': f'[{song_id}]', 'br': bitrate})
CallPlayerApi ==
    /\ eapi = "idle"
    /\ calls < MaxCalls
    /\ path' = PlayerPath
    /\ query' = PlayerQuery(song_id, bitrate)
    /\ \E t \in Clock, r \in Draws, ua \in Agents :
          /\ user_agent' = ua
          /\ now' = t
          /\ rand' = r
          /\ cookies' = Cookies(t, r)
    /\ calls' = calls + 1
    /\ eapi' = "headers"
    /\ UNCHANGED <<headers, url, sent, api_path, merged, request_text, message,
                   msg_digest, plaintext, data, encrypted, eapi_data, eapi_exc,
                   last>>

NextPlayer ==
    \/ MakeRequest /\ UNCHANGED <<eapiVars, playerRest>>
    \/ CallPlayerApi /\ UNCHANGED <<playerVars, playerRest>>
    \/ BuildHeaders /\ UNCHANGED <<playerVars, playerRest>>
    \/ CallCipher /\ UNCHANGED <<playerVars, playerRest>>
    \/ DumpRequest /\ UNCHANGED <<playerVars, playerRest>>
    \/ DigestMessage /\ UNCHANGED <<playerVars, playerRest>>
    \/ PadPlaintext /\ UNCHANGED <<playerVars, playerRest>>
    \/ Encrypt /\ UNCHANGED <<playerVars, playerRest>>
    \/ ReturnBody /\ UNCHANGED <<playerVars, playerRest>>
    \/ SendRequest /\ UNCHANGED <<playerVars, playerRest>>

SpecPlayer == InitPlayer /\ [][NextPlayer]_vars

(***************************************************************************)
(* C26. The two builders of the player request agree.                      *)
(***************************************************************************)
\* both builders have run, with the same clock reading and the same draw
BothBuilt ==
    /\ made # NoMade
    /\ eapi = "returned"
    /\ made.now = now
    /\ made.rand = rand

\* 'Cookie', 'Content-Type', 'Referer'
ComparedHeaders == {<<67, 111, 111, 107, 105, 101>>, <<67, 111, 110, 116, 101, 110, 116, 45, 84, 121, 112, 101>>, <<82, 101, 102, 101, 114, 101, 114>>}

\* C26: for the same song_id, bitrate, clock reading and random number,
\* make_player_api_request_data_and_headers returns the body text and the
\* Cookie, Content-Type and Referer headers that _call_player_api sends
\* through _download_eapi_json and _create_eapi_cipher.
C26_BuildersAgree ==
    BothBuilt =>
        /\ made.data = sent.data
        /\ \A k \in ComparedHeaders :
              /\ HasKey(made.headers, k)
              /\ HasKey(sent.headers, k)
              /\ Lookup(made.headers, k) = Lookup(sent.headers, k)

\* reached: both built for song '186016' with the draw 1000, under
\* different configured agents
C26_Witness ==
    /\ BothBuilt
    /\ song_id = <<49, 56, 54, 48, 49, 54>>    \* '186016'
    /\ rand = 1000
    /\ api_path = PlayerURL
    \* 'User-Agent', 'User-Agent'
    /\ Lookup(made.headers, <<85, 115, 101, 114, 45, 65, 103, 101, 110, 116>>) # Lookup(sent.headers, <<85, 115, 101, 114, 45, 65, 103, 101, 110, 116>>)


(***************************************************************************)
(* extract_formats                                                         *)
(***************************************************************************)
MaxSongs == 2       \* songs in the 'data' list of one player response

\* _FORMATS = ['bMusic', 'mMusic', 'hMusic']
_FORMATS == <<"bMusic", "mMusic", "hMusic">>

\* bool(v) of Python
Truthy(v) ==
    IF v.t = "none" THEN FALSE
    ELSE IF v.t = "str" THEN v.s # <<>>
    ELSE IF v.t = "int" THEN v.n # 0
    ELSE IF v.t = "dict" THEN v.d # <<>>
    ELSE TRUE

\* d.get(k) of a dict
Get(v, k) == IF HasKey(v.d, k) THEN Lookup(v.d, k) ELSE NoneV

\* utils.int_or_none for None and for an int
int_or_none(v) == IF v.t = "int" THEN v ELSE NoneV

\* utils.try_get(song, lambda x: x['code'], int): the value when it is an
\* int, None when the key is missing or the value is of another type
try_get_int(v) == IF v.t = "int" THEN v ELSE NoneV

\* a or b of Python
OrElse(a, b) == IF Truthy(a) THEN a ELSE b

\* info.get(song_format): no entry, an empty dict, details with and
\* without a bitrate
DetailKinds ==
    {NoneV,
     DictV(<<>>),
     \* 'extension', 'mp3'
     DictV(<<Item(<<101, 120, 116, 101, 110, 115, 105, 111, 110>>, StrV(<<109, 112, 51>>))>>),
     DictV(<<Item(<<98, 105, 116, 114, 97, 116, 101>>, IntV(0))>>),    \* 'bitrate'
     DictV(<<Item(<<98, 105, 116, 114, 97, 116, 101>>, IntV(320000))>>)}    \* 'bitrate'

\* a song of the response: its 'url', what _is_valid_url answers for that
\* url, and its 'code'
Song(u, ok, c) == [url |-> u, valid |-> ok, code |-> c]

Songs ==
    {Song(NoneV, FALSE, IntV(404)), Song(StrV(<<117>>), TRUE, IntV(200))}    \* 'u'
    \cup
    {Song(StrV(<<117>>), FALSE, c) :    \* 'u'
        c \in {NoneV, StrV(<<52, 48, 52>>), IntV(0), IntV(200), IntV(404)}}    \* '404'

\* what SpecFormats leaves alone
fmtRest == <<unmaskVars, wallVars, eapiVars, parVars, trillerVars,
    lazyVars>>

FormatsRestIdle ==
    UnmaskIdle /\ WallIdle /\ EapiIdle /\ ParIdle /\ TrillerIdle
        /\ LazyIdle

\* err = 0; formats = []; song_id = info['id']
InitFormats ==
    /\ song_id \in PlayerSongIds
    /\ bitrate = 0
    /\ made = NoMade
    /\ fmt_i = 0
    /\ details = NoneV
    /\ song_i = 0
    /\ err = IntV(0)
    /\ formats = <<>>
    /\ first_rejected = <<>>
    /\ fpc = "formats"
    /\ FormatsRestIdle

\* for song_format in self._FORMATS: details = info.get(song_format)
\* if not details: continue
\* bitrate = int_or_none(details.get('bitrate')) or 999000
NextFormat ==
    /\ fpc = "formats"
    /\ fmt_i < Len(_FORMATS)
    /\ fmt_i' = fmt_i + 1
    /\ \E d \in DetailKinds :
          /\ details' = d
          /\ IF ~Truthy(d)
             THEN /\ fpc' = "formats"
                  /\ bitrate' = bitrate
             ELSE /\ fpc' = "call"
                  \* 'bitrate'
                  /\ bitrate' = OrElse(int_or_none(Get(d, <<98, 105, 116, 114, 97, 116, 101>>)), IntV(999000)).n
    /\ UNCHANGED <<song_id, made, song_i, err, formats, first_rejected>>

\* data = self._call_player_api(song_id, bitrate)
\* for song in try_get(data, lambda x: x['data'], list) or []:
PlayerResponds ==
    /\ fpc = "call"
    /\ fpc' = "songs"
    /\ song_i' = 0
    /\ UNCHANGED <<song_id, bitrate, made, fmt_i, details, err, formats,
                   first_rejected>>

\* the request of _call_player_api fails: _download_json raises
PlayerFails ==
    /\ fpc = "call"
    /\ fpc' = "DownloadError"
    /\ UNCHANGED <<song_id, bitrate, made, fmt_i, details, song_i, err, formats,
                   first_rejected>>

\* song_url = try_get(song, lambda x: x['url']); if not song_url: continue
\* if self._is_valid_url(...): formats.append({...})
\* elif err == 0: err = try_get(song, lambda x: x['code'], int)
TakeSong ==
    /\ fpc = "songs"
    /\ song_i < MaxSongs
    /\ song_i' = song_i + 1
    /\ \E song \in Songs :
          IF ~Truthy(song.url)
          THEN UNCHANGED <<err, formats, first_rejected>>
          ELSE IF song.valid
          THEN /\ formats' = Append(formats, _FORMATS[fmt_i])
               /\ UNCHANGED <<err, first_rejected>>
          ELSE /\ err' = IF err = IntV(0) THEN try_get_int(song.code) ELSE err
               /\ first_rejected' = IF first_rejected = <<>>
                                    THEN <<try_get_int(song.code)>>
                                    ELSE first_rejected
               /\ UNCHANGED formats
    /\ UNCHANGED <<song_id, bitrate, made, fmt_i, details, fpc>>

\* the list of the response is exhausted
EndSongs ==
    /\ fpc = "songs"
    /\ fpc' = "formats"
    /\ UNCHANGED <<song_id, bitrate, made, fmt_i, details, song_i, err, formats,
                   first_rejected>>

\* if not formats: if err != 0 and (err < 200 or err >= 400): raise
\* ExtractorError(...) else: self.raise_geo_restricted(...);  return formats
Finish ==
    /\ fpc = "formats"
    /\ fmt_i = Len(_FORMATS)
    /\ fpc' = IF formats # <<>> THEN "returned"
              ELSE IF err # IntV(0)
                   THEN IF err.t # "int" THEN "TypeError"
                        ELSE IF err.n < 200 \/ err.n >= 400
                             THEN "ExtractorError"
                             ELSE "GeoRestrictedError"
                   ELSE "GeoRestrictedError"
    /\ UNCHANGED <<song_id, bitrate, made, fmt_i, details, song_i, err, formats,
                   first_rejected>>

NextFormats ==
    \/ NextFormat /\ UNCHANGED fmtRest
    \/ PlayerResponds /\ UNCHANGED fmtRest
    \/ PlayerFails /\ UNCHANGED fmtRest
    \/ TakeSong /\ UNCHANGED fmtRest
    \/ EndSongs /\ UNCHANGED fmtRest
    \/ Finish /\ UNCHANGED fmtRest

SpecFormats == InitFormats /\ [][NextFormats]_vars

(***************************************************************************)
(* C28. How extract_formats ends.                                          *)
(***************************************************************************)
\* every entry of _FORMATS was tried and extract_formats has ended
TriedAll == fpc \in {"returned", "ExtractorError", "GeoRestrictedError", "TypeError"}

\* the code is an int other than 0 outside 200..399
SiteError(c) == c.t = "int" /\ c.n # 0 /\ (c.n < 200 \/ c.n >= 400)

\* C28 as stated: extract_formats never returns an empty list; with no
\* accepted song it ends in an ExtractorError when the recorded code is
\* non-zero and outside 200..399 and in a geo-restriction error otherwise;
\* the recorded code is the code of the first rejected song.
C28_ListOrDeclaredError ==
    TriedAll =>
        /\ fpc = "returned" <=> formats # <<>>
        /\ formats = <<>> =>
              fpc = (IF SiteError(err) THEN "ExtractorError" ELSE "GeoRestrictedError")
        /\ err = (IF first_rejected = <<>> THEN IntV(0) ELSE first_rejected[1])

\* what the code does: a list that is never empty, or one of three errors,
\* the TypeError of None < 200 among them; the recorded code is the code of
\* the first rejected song whose code is not the int 0
ExtractFormatsEnds ==
    TriedAll =>
        /\ fpc = "returned" <=> formats # <<>>
        /\ formats = <<>> =>
              fpc = (IF err.t # "int" THEN "TypeError"
                     ELSE IF SiteError(err) THEN "ExtractorError"
                     ELSE "GeoRestrictedError")
        /\ first_rejected = <<>> => err = IntV(0)
        /\ first_rejected # <<>> /\ first_rejected[1] # IntV(0) =>
              err = first_rejected[1]

\* reached: a rejected song without an int code, then the comparison fails
NoneComparedWithInt ==
    /\ fpc = "TypeError"
    /\ formats = <<>>
    /\ first_rejected = <<NoneV>>

\* reached: the code 0 of the first rejected song replaced by a later code
LaterCodeRecorded ==
    /\ fpc = "ExtractorError"
    /\ first_rejected = <<IntV(0)>>
    /\ err = IntV(404)


(***************************************************************************)
(* The session of a Triller extractor: _perform_login, _create_guest and   *)
(* TrillerUserIE._real_extract                                             *)
(***************************************************************************)
MaxRequests == 5    \* requests sent in one behaviour

\* what _download_json(..., fatal=False) returns when the download fails
FalseV == [t |-> "false", s |-> <<>>, n |-> 0, d |-> <<>>]

\* answers of /api/user/is-valid-username
UserChecks ==
    {FalseV, DictV(<<>>),
     DictV(<<Item(<<115, 116, 97, 116, 117, 115>>, IntV(1))>>),    \* 'status'
     DictV(<<Item(<<115, 116, 97, 116, 117, 115>>, IntV(0))>>)}    \* 'status'

\* answers of /user/auth
Logins ==
    {FalseV, DictV(<<>>),
     DictV(<<Item(<<101, 114, 114, 111, 114>>, IntV(1008))>>),    \* 'error'
     \* 'auth_token'
     DictV(<<Item(<<97, 117, 116, 104, 95, 116, 111, 107, 101, 110>>, StrV(<<>>))>>),
     \* 'auth_token', 'L'
     DictV(<<Item(<<97, 117, 116, 104, 95, 116, 111, 107, 101, 110>>, StrV(<<76>>))>>),
     \* 'auth_token', 'M'
     DictV(<<Item(<<97, 117, 116, 104, 95, 116, 111, 107, 101, 110>>, StrV(<<77>>))>>)}

\* answers of /user/create_guest; FalseV stands for the failed download,
\* which _download_json turns into an ExtractorError
Guests ==
    {FalseV, DictV(<<>>),
     \* 'auth_token'
     DictV(<<Item(<<97, 117, 116, 104, 95, 116, 111, 107, 101, 110>>, StrV(<<>>))>>),
     \* 'auth_token', 'G'
     DictV(<<Item(<<97, 117, 116, 104, 95, 116, 111, 107, 101, 110>>, StrV(<<71>>))>>),
     \* 'auth_token', 'H'
     DictV(<<Item(<<97, 117, 116, 104, 95, 116, 111, 107, 101, 110>>, StrV(<<72>>))>>)}

\* what SpecTriller leaves alone
trillerRest == <<unmaskVars, wallVars, eapiVars, parVars, playerVars, fmtVars,
    lazyVars>>

TrillerRestIdle ==
    UnmaskIdle /\ WallIdle /\ EapiIdle /\ ParIdle /\ PlayerIdle /\ FormatsIdle
        /\ LazyIdle

\* _IS_LOGGED_IN = False; _AUTH_TOKEN = None
InitTriller == TrillerIdle /\ TrillerRestIdle

\* the operation ends with result r
EndOp(r) ==
    /\ tpc' = "idle"
    /\ outcome' = r

\* def _perform_login(self, username, password):
\*     if self._IS_LOGGED_IN and self._AUTH_TOKEN: return
PerformLogin ==
    /\ tpc = "idle"
    /\ op' = "login"
    /\ at_entry' = <<_IS_LOGGED_IN, _AUTH_TOKEN>>
    /\ IF _IS_LOGGED_IN /\ Truthy(_AUTH_TOKEN)
       THEN EndOp("returned")
       ELSE tpc' = "login_check" /\ outcome' = "none"
    /\ UNCHANGED <<_IS_LOGGED_IN, _AUTH_TOKEN, requests, bearer>>

\* user_check = self._download_json(.../api/user/is-valid-username, fatal=False, ...)
\* if user_check.get('status'): raise ExtractorError('... Invalid username')
CheckUsername ==
    /\ tpc = "login_check"
    /\ requests < MaxRequests
    /\ requests' = requests + 1
    /\ \E user_check \in UserChecks :
          IF user_check.t # "dict" THEN EndOp("AttributeError")
          \* 'status'
          ELSE IF Truthy(Get(user_check, <<115, 116, 97, 116, 117, 115>>)) THEN EndOp("ExtractorError")
          ELSE tpc' = "login_auth" /\ outcome' = outcome
    /\ UNCHANGED <<_IS_LOGGED_IN, _AUTH_TOKEN, op, at_entry, bearer>>

\* login = self._download_json(.../user/auth, fatal=False, ...)
\* if not login.get('auth_token'): raise ExtractorError(...)
\* self._AUTH_TOKEN = login.get('auth_token'); self._IS_LOGGED_IN = True
Authenticate ==
    /\ tpc = "login_auth"
    /\ requests < MaxRequests
    /\ requests' = requests + 1
    /\ \E login \in Logins :
          IF login.t # "dict"
          THEN EndOp("AttributeError") /\ UNCHANGED <<_IS_LOGGED_IN, _AUTH_TOKEN>>
          \* 'auth_token'
          ELSE IF ~Truthy(Get(login, <<97, 117, 116, 104, 95, 116, 111, 107, 101, 110>>))
          THEN EndOp("ExtractorError") /\ UNCHANGED <<_IS_LOGGED_IN, _AUTH_TOKEN>>
          \* 'auth_token'
          ELSE /\ _AUTH_TOKEN' = Get(login, <<97, 117, 116, 104, 95, 116, 111, 107, 101, 110>>)
               /\ _IS_LOGGED_IN' = TRUE
               /\ EndOp("returned")
    /\ UNCHANGED <<op, at_entry, bearer>>

\* mutant: a guest session is created for every user extraction
UserExtractAlwaysGuest ==
    /\ tpc = "idle"
    /\ op' = "user"
    /\ at_entry' = <<_IS_LOGGED_IN, _AUTH_TOKEN>>
    /\ tpc' = "guest"
    /\ outcome' = "none"
    /\ UNCHANGED <<_IS_LOGGED_IN, _AUTH_TOKEN, requests, bearer>>

\* TrillerUserIE._real_extract: if not self._IS_LOGGED_IN: self._create_guest()
UserExtract ==
    /\ tpc = "idle"
    /\ op' = "user"
    /\ at_entry' = <<_IS_LOGGED_IN, _AUTH_TOKEN>>
    /\ tpc' = IF ~_IS_LOGGED_IN THEN "guest" ELSE "user_info"
    /\ outcome' = "none"
    /\ UNCHANGED <<_IS_LOGGED_IN, _AUTH_TOKEN, requests, bearer>>

\* guest = self._download_json(.../user/create_guest, ...)
\* if not guest.get('auth_token'): raise ExtractorError(...)
\* self._AUTH_TOKEN = guest.get('auth_token')
CreateGuest ==
    /\ tpc = "guest"
    /\ requests < MaxRequests
    /\ requests' = requests + 1
    /\ \E guest \in Guests :
          \* 'auth_token'
          IF guest.t # "dict" \/ ~Truthy(Get(guest, <<97, 117, 116, 104, 95, 116, 111, 107, 101, 110>>))
          THEN EndOp("ExtractorError") /\ UNCHANGED _AUTH_TOKEN
          \* 'auth_token'
          ELSE /\ _AUTH_TOKEN' = Get(guest, <<97, 117, 116, 104, 95, 116, 111, 107, 101, 110>>)
               /\ tpc' = "user_info"
               /\ outcome' = outcome
    /\ UNCHANGED <<_IS_LOGGED_IN, op, at_entry, bearer>>

\* user_info = self._download_json(..., headers={'Authorization':
\*     f'Bearer {self._AUTH_TOKEN}', ...}).get('user') and the rest of the
\* extraction, which reads no field of the session
DownloadUserInfo ==
    /\ tpc = "user_info"
    /\ requests < MaxRequests
    /\ requests' = requests + 1
    /\ bearer' = _AUTH_TOKEN
    /\ \E r \in {"returned", "ExtractorError"} : EndOp(r)
    /\ UNCHANGED <<_IS_LOGGED_IN, _AUTH_TOKEN, op, at_entry>>

NextTriller ==
    \/ PerformLogin /\ UNCHANGED trillerRest
    \/ CheckUsername /\ UNCHANGED trillerRest
    \/ Authenticate /\ UNCHANGED trillerRest
    \/ UserExtract /\ UNCHANGED trillerRest
    \/ CreateGuest /\ UNCHANGED trillerRest
    \/ DownloadUserInfo /\ UNCHANGED trillerRest

SpecTriller == InitTriller /\ [][NextTriller]_vars

(***************************************************************************)
(* C29. The session state of a Triller extractor.                          *)
(***************************************************************************)
\* a token that is a str and not empty
IsToken(v) == v.t = "str" /\ v.s # <<>>

\* the step ends a login attempt with an exception
LoginFails ==
    /\ op = "login"
    /\ tpc \in {"login_check", "login_auth"}
    /\ outcome' \in {"ExtractorError", "AttributeError"}

\* the step is the entry of the operation o
Enters(o) == tpc = "idle" /\ op' = o /\ at_entry' = <<_IS_LOGGED_IN, _AUTH_TOKEN>>

\* C29: _IS_LOGGED_IN implies that _AUTH_TOKEN is a non-empty token; a login
\* attempt that fails leaves both fields as they were at its entry; once
\* logged in, _perform_login returns without sending a request, and no step,
\* a user extraction included, replaces the token.
C29_SessionState ==
    /\ [](_IS_LOGGED_IN => IsToken(_AUTH_TOKEN))
    /\ [][LoginFails => <<_IS_LOGGED_IN', _AUTH_TOKEN'>> = at_entry]_vars
    /\ [][_IS_LOGGED_IN /\ Enters("login") =>
            /\ tpc' = "idle"
            /\ outcome' = "returned"
            /\ requests' = requests]_vars
    /\ [][_IS_LOGGED_IN => _AUTH_TOKEN' = _AUTH_TOKEN /\ _IS_LOGGED_IN']_vars
    /\ [](op = "user" /\ at_entry[1] => tpc # "guest")

\* reached: logged in with the token 'M' and, five requests into the
\* behaviour, a user extraction sent with the login token
C29_Witness ==
    /\ _IS_LOGGED_IN
    /\ _AUTH_TOKEN = StrV(<<77>>)    \* 'M'
    /\ op = "user"
    /\ tpc = "idle"
    /\ outcome = "returned"
    /\ at_entry = <<TRUE, StrV(<<77>>)>>    \* 'M'
    /\ bearer = _AUTH_TOKEN
    /\ requests = 5


(***************************************************************************)
(* The ordering loop of devscripts/make_lazy_extractors.py                 *)
(***************************************************************************)
MaxClasses == 3     \* extractor classes in the hierarchy

\* the classes the loop takes out of every c.__bases__
object == -2
SearchInfoExtractor == -1
InfoExtractor == 0

\* the class whose __name__ is 'GenericIE'
GenericIE == 1

Universe == 1..MaxClasses

Elems(s) == {s[i] : i \in DOMAIN s}

Rev(s) == [i \in 1..Len(s) |-> s[Len(s) + 1 - i]]

\* acyclic hierarchies: the bases of a class are classes of a lower number,
\* or InfoExtractor alone
Hierarchies ==
    {[c \in Universe |-> IF h[c] = {} THEN {InfoExtractor} ELSE h[c]] :
        h \in {g \in [Universe -> SUBSET Universe] :
                  \A c \in Universe : \A b \in g[c] : b < c}}

\* lists of distinct classes, one class at least
Lists ==
    {s \in UNION {[1..m -> Universe] : m \in 1..MaxClasses} :
        \A i, j \in DOMAIN s : i # j => s[i] # s[j]}

\* what SpecLazy leaves alone
lazyRest == <<unmaskVars, wallVars, eapiVars, parVars, playerVars, fmtVars,
              trillerVars>>

LazyRestIdle ==
    /\ UnmaskIdle /\ WallIdle /\ EapiIdle /\ ParIdle /\ PlayerIdle
    /\ FormatsIdle /\ TrillerIdle

\* classes = _ALL_CLASSES[:-1]; ordered_cls = []
InitLazy ==
    /\ _ALL_CLASSES \in Lists
    /\ __bases__ \in Hierarchies
    /\ classes = SubSeq(_ALL_CLASSES, 1, Len(_ALL_CLASSES) - 1)
    /\ ordered_cls = <<>>
    /\ lpc = "while"
    /\ LazyRestIdle

\* bases = set(c.__bases__) - {object, InfoExtractor, SearchInfoExtractor}
Bases(c) == __bases__[c] \ {object, InfoExtractor, SearchInfoExtractor}

\* the bases b with: b not in classes and b not in ordered_cls
Missing(c) == {b \in Bases(c) : b \notin Elems(classes) /\ b \notin Elems(ordered_cls)}

\* mutant: a class is emitted wherever its bases are
ReadyAlways(c) == TRUE

\* all(b in ordered_cls for b in bases)
Ready(c) == \A b \in Bases(c) : b \in Elems(ordered_cls)

\* the class at which 'for c in classes[:]' breaks
Breaks(c) == Missing(c) # {} \/ Ready(c)

FirstBreak ==
    CHOOSE i \in 1..Len(classes) :
        /\ Breaks(classes[i])
        /\ \A j \in 1..(i - 1) : ~Breaks(classes[j])

\* the while loop is at a pass of the for loop that ends in a break
AtBreak == lpc = "while" /\ \E i \in 1..Len(classes) : Breaks(classes[i])

\* the orders in which 'for b in bases' can take the elements of a set
Orders(S) ==
    {s \in [1..Cardinality(S) -> S] : \A i, j \in DOMAIN s : i # j => s[i] # s[j]}

\* classes.remove(c)
Remove(s, c) ==
    LET k == CHOOSE i \in 1..Len(s) : s[i] = c /\ \A j \in 1..(i - 1) : s[j] # c
    IN  SubSeq(s, 1, k - 1) \o SubSeq(s, k + 1, Len(s))

\* for b in bases: if b not in classes and b not in ordered_cls:
\*     classes.insert(0, b); stop = True   ...   if stop: break
InsertBases ==
    /\ AtBreak
    /\ LET c == classes[FirstBreak] IN
       /\ Missing(c) # {}
       /\ GenericIE \notin Missing(c)
       /\ \E order \in Orders(Missing(c)) : classes' = Rev(order) \o classes
    /\ UNCHANGED <<_ALL_CLASSES, __bases__, ordered_cls, lpc>>

\* if b.__name__ == 'GenericIE': exit()
Exit ==
    /\ AtBreak
    /\ LET c == classes[FirstBreak] IN
       /\ GenericIE \in Missing(c)
       /\ \E order \in Orders(Missing(c)) :
             LET k == CHOOSE i \in DOMAIN order : order[i] = GenericIE
             IN  classes' = Rev(SubSeq(order, 1, k - 1)) \o classes
    /\ lpc' = "exit"
    /\ UNCHANGED <<_ALL_CLASSES, __bases__, ordered_cls>>

\* if all(b in ordered_cls for b in bases):
\*     ordered_cls.append(c); classes.remove(c); break
AppendClass ==
    /\ AtBreak
    /\ LET c == classes[FirstBreak] IN
       /\ Missing(c) = {}
       /\ Ready(c)
       /\ ordered_cls' = Append(ordered_cls, c)
       /\ classes' = Remove(classes, c)
    /\ UNCHANGED <<_ALL_CLASSES, __bases__, lpc>>

\* while classes: ... ;  ordered_cls.append(_ALL_CLASSES[-1])
AppendLast ==
    /\ lpc = "while"
    /\ classes = <<>>
    /\ ordered_cls' = Append(ordered_cls, _ALL_CLASSES[Len(_ALL_CLASSES)])
    /\ lpc' = "done"
    /\ UNCHANGED <<_ALL_CLASSES, __bases__, classes>>

NextLazy ==
    \/ InsertBases /\ UNCHANGED lazyRest
    \/ Exit /\ UNCHANGED lazyRest
    \/ AppendClass /\ UNCHANGED lazyRest
    \/ AppendLast /\ UNCHANGED lazyRest

\* the script keeps running while it has a step to take
SpecLazy == InitLazy /\ [][NextLazy]_vars /\ WF_vars(NextLazy)

(***************************************************************************)
(* C30. The order of the classes.                                          *)
(***************************************************************************)
LastClass == _ALL_CLASSES[Len(_ALL_CLASSES)]

\* every class appears once, after its bases, the last class last
OnceAndAfterBases ==
    /\ \A i, j \in DOMAIN ordered_cls : i # j => ordered_cls[i] # ordered_cls[j]
    /\ Elems(_ALL_CLASSES) \subseteq Elems(ordered_cls)
    /\ \A i \in DOMAIN ordered_cls :
          \A b \in Bases(ordered_cls[i]) :
              \E j \in 1..(i - 1) : ordered_cls[j] = b
    /\ ordered_cls[Len(ordered_cls)] = LastClass

LastStandsApart ==
    /\ Bases(LastClass) = {}
    /\ \A i \in DOMAIN ordered_cls : LastClass \notin Bases(ordered_cls[i])

====
